---- MODULE Spec2Model ----
(***************************************************************************)
(* EA FC 25 career-mode player manager: the record store (PlayerDatabase,  *)
(* a SQLite table behind node-sqlite3), the CSV loader and field           *)
(* normalizer (CSVDataLoader) and the query / aggregation operations.      *)
(*                                                                         *)
(* Text is a sequence of one-character strings (<<"S","t">>), so that      *)
(* parsing and pattern matching are computed character by character.       *)
(* JavaScript values and SQLite values are tagged tuples:                  *)
(*   JS :  <<"num", n>>  <<"nan">>  <<"str", chars>>  <<"undefined">>      *)
(*         <<"jsnull">>  <<"date", t>>  <<"obj", fields>>                  *)
(*   SQL:  <<"int", n>>  <<"text", chars>>  <<"null">>                     *)
(***************************************************************************)
EXTENDS Integers, Sequences, FiniteSets, TLC

VARIABLES
    players,      \* the SQLite table "players": rows in rowid (= id) order
    lastAdded,    \* history: id -> <<the Player of the last successful addPlayer>>, or <<>>
    lastCall,     \* history: <<the Player passed to the most recent addPlayer>>, or <<>>
    repeated,     \* history: the most recent addPlayer repeated the call before it
    overwrote,    \* history: the most recent addPlayer replaced a different stored record
    addResult,    \* what the most recent addPlayer resolved to (FALSE before any)
    stats,        \* <<the DatabaseStats of the most recent getStats>>, or <<>>
    answer,       \* <<the operation made last on the store: its arguments, the
                  \* table before it and what it resolved to>>, or <<>>
    askedCriteria, \* the SearchCriteria of the searchPlayers call
    askedLimit,   \* the limit of the searchPlayers call
    result,       \* <<the Player list searchPlayers resolved to>>, or <<>>
    rawRow,       \* the row object handed to parsePlayerFromRow
    normalized,   \* <<the Player parsePlayerFromRow returned>>, or <<>>
    host,         \* the machine's clock: today's local calendar date and time zone
    inputLine,    \* the line handed to parseCSVLine
    fields,       \* <<the list of fields parseCSVLine returned>>, or <<>>
    dataset,      \* the data rows the CSV file was written from, as row objects
    csvFile,      \* the CSV file: its text, or Missing
    logged,       \* the messages written with console.error
    loaded,       \* <<what the most recent loadPlayersFromCSV did>>, or <<>>
    pending,      \* the players of the running load not yet passed to addPlayer
    loadsDone,    \* the number of completed loads
    appState      \* the application state: "menu" or "loading"; "starting" is
                  \* 'loading' before initializeApp has read the store

storeVars == <<players, lastAdded, lastCall, repeated, overwrote, addResult>>
historyVars == <<lastAdded, lastCall, repeated, overwrote, addResult>>
queryVars == <<stats, answer>>
searchVars == <<askedCriteria, askedLimit, result>>
normVars == <<rawRow, normalized, host, inputLine, fields>>
loadVars == <<dataset, csvFile, logged, loaded, pending, loadsDone, appState>>
vars == <<storeVars, queryVars, searchVars, normVars, loadVars>>

(***************************************************************************)
(* Bounds of the model.                                                    *)
(***************************************************************************)
MaxId == 2
MaxRows == 3

(***************************************************************************)
(* JavaScript and SQLite values.                                           *)
(***************************************************************************)
JsNum(n) == <<"num", n>>
JsNaN == <<"nan">>
JsStr(s) == <<"str", s>>
JsUndefined == <<"undefined">>
JsNull == <<"jsnull">>
JsDate(t) == <<"date", t>>

SqlInt(n) == <<"int", n>>
SqlText(s) == <<"text", s>>
SqlNull == <<"null">>

IsJsNum(v) == v[1] = "num"
IsJsStr(v) == v[1] = "str"
IsSqlInt(v) == v[1] = "int"
IsSqlText(v) == v[1] = "text"

(***************************************************************************)
(* Characters: the printable ASCII characters in code order, for the text  *)
(* comparisons of SQLite (BINARY collation) and the ASCII case folding of  *)
(* its LIKE operator ("grave" stands for the backquote character).        *)
(***************************************************************************)
Ascii ==
    <<" ", "!", "\"", "#", "$", "%", "&", "'", "(", ")", "*", "+", ",", "-", ".", "/",
      "0", "1", "2", "3", "4", "5", "6", "7", "8", "9", ":", ";", "<", "=", ">", "?",
      "@", "A", "B", "C", "D", "E", "F", "G", "H", "I", "J", "K", "L", "M", "N", "O",
      "P", "Q", "R", "S", "T", "U", "V", "W", "X", "Y", "Z", "[", "\\", "]", "^", "_",
      "grave", "a", "b", "c", "d", "e", "f", "g", "h", "i", "j", "k", "l", "m", "n", "o",
      "p", "q", "r", "s", "t", "u", "v", "w", "x", "y", "z", "{", "|", "}", "~">>

AsciiIndex == [c \in {Ascii[i] : i \in 1 .. Len(Ascii)} |->
                  CHOOSE i \in 1 .. Len(Ascii) : Ascii[i] = c]

\* The code of a character; a token that is no single ASCII character (a
\* non-ASCII character such as the euro sign) sorts after all of them.
CharCode(c) == IF c \in DOMAIN AsciiIndex THEN AsciiIndex[c] + 31 ELSE 1000

IsUpper(c) == CharCode(c) >= 65 /\ CharCode(c) <= 90
IsDigit(c) == CharCode(c) >= 48 /\ CharCode(c) <= 57
DigitValue(c) == CharCode(c) - 48

\* sqlite3Tolower: ASCII upper case letters fold to lower case, nothing else.
ToLower(c) == IF IsUpper(c) THEN Ascii[AsciiIndex[c] + 32] ELSE c

RECURSIVE TextLess(_, _)
TextLess(a, b) ==
    IF b = <<>> THEN FALSE
    ELSE IF a = <<>> THEN TRUE
    ELSE IF Head(a) = Head(b) THEN TextLess(Tail(a), Tail(b))
    ELSE CharCode(Head(a)) < CharCode(Head(b))

(***************************************************************************)
(* Date.prototype.toISOString and JSON.stringify, as the text they produce *)
(* for the values of the model: a date is an instant, the number of the    *)
(* UTC day it begins (days since 1970-01-01), written as the text          *)
(* "D<digits>"; the attributes object is the six sub-ratings.              *)
(***************************************************************************)
DigitChars == <<"0", "1", "2", "3", "4", "5", "6", "7", "8", "9">>

RECURSIVE NatChars(_)
NatChars(n) ==
    IF n < 10 THEN <<DigitChars[n + 1]>>
    ELSE NatChars(n \div 10) \o <<DigitChars[(n % 10) + 1]>>

toISOString(d) == JsStr(<<"D">> \o NatChars(d[2]))

AttributeNames == <<"pace", "shooting", "passing", "dribbling", "defending", "physical">>

RECURSIVE StringifyFrom(_, _)
StringifyFrom(attrs, i) ==
    IF i > Len(AttributeNames) THEN <<>>
    ELSE (IF i > 1 THEN <<",">> ELSE <<>>)
         \o <<AttributeNames[i], ":">> \o NatChars(attrs[AttributeNames[i]])
         \o StringifyFrom(attrs, i + 1)

\* String(attributes): the text every plain object converts to.
objectToString(attrs) ==
    JsStr(<<"[", "o", "b", "j", "e", "c", "t", " ", "O", "b", "j", "e", "c", "t", "]">>)

JSONstringify(attrs) == JsStr(<<"{">> \o StringifyFrom(attrs, 1) \o <<"}">>)

(***************************************************************************)
(* node-sqlite3 parameter binding: an integral number binds as INTEGER, a  *)
(* string as TEXT, null and undefined as NULL; SQLite stores a NaN double  *)
(* as NULL.                                                                *)
(***************************************************************************)
bind(v) ==
    CASE v[1] = "num" -> SqlInt(v[2])
      [] v[1] = "str" -> SqlText(v[2])
      [] OTHER -> SqlNull

(***************************************************************************)
(* The table "players" (initializeDatabase): its NOT NULL columns and its  *)
(* INTEGER PRIMARY KEY id, which is the rowid the b-tree is ordered by.    *)
(***************************************************************************)
Columns ==
    <<"id", "name", "age", "nationality", "club", "league", "position",
      "preferred_foot", "overall_rating", "potential", "market_value", "wage",
      "release_clause", "contract_expiry", "attributes", "last_updated">>

NotNullColumns ==
    {"name", "age", "position", "overall_rating", "potential", "market_value",
     "attributes", "last_updated"}

NotNullOk(row) == \A c \in NotNullColumns : row[c] # SqlNull

\* An INTEGER PRIMARY KEY accepts only an integer (NULL would take a fresh
\* rowid; the loader never binds one, and the model rejects it).
PrimaryKeyOk(row) == IsSqlInt(row.id)

\* A delete that takes every row up to the id.
RECURSIVE DeleteUpToId(_, _)
DeleteUpToId(tbl, id) ==
    IF tbl = <<>> THEN <<>>
    ELSE IF Head(tbl).id[2] <= id[2] THEN DeleteUpToId(Tail(tbl), id)
    ELSE <<Head(tbl)>> \o DeleteUpToId(Tail(tbl), id)

RECURSIVE DeleteId(_, _)
DeleteId(tbl, id) ==
    IF tbl = <<>> THEN <<>>
    ELSE IF Head(tbl).id = id THEN DeleteId(Tail(tbl), id)
    ELSE <<Head(tbl)>> \o DeleteId(Tail(tbl), id)

RECURSIVE InsertByRowid(_, _)
InsertByRowid(tbl, row) ==
    IF tbl = <<>> THEN <<row>>
    ELSE IF Head(tbl).id[2] <= row.id[2] THEN <<Head(tbl)>> \o InsertByRowid(Tail(tbl), row)
    ELSE <<row>> \o tbl

\* A table without the primary key: every insert is a new row.
InsertWithoutKey(tbl, row) == Append(tbl, row)

\* INSERT OR IGNORE: the row already stored under the key is kept.
InsertOrIgnore(tbl, row) ==
    IF \E i \in 1 .. Len(tbl) : tbl[i].id = row.id THEN tbl ELSE InsertByRowid(tbl, row)

\* INSERT OR REPLACE: the row holding the same primary key is deleted, then
\* the new row is inserted whole.
InsertOrReplace(tbl, row) == InsertByRowid(DeleteId(tbl, row.id), row)

(***************************************************************************)
(* PlayerDatabase.addPlayer: the sixteen bound parameters, then INSERT OR  *)
(* REPLACE; a constraint failure leaves the table as it was and resolves   *)
(* false.                                                                  *)
(***************************************************************************)
addPlayerParams(player) ==
    [id |-> bind(player.id),
     name |-> bind(player.name),
     age |-> bind(player.age),
     nationality |-> bind(player.nationality),
     club |-> bind(player.club),
     league |-> bind(player.league),
     position |-> bind(player.position),
     preferred_foot |-> bind(player.preferredFoot),
     overall_rating |-> bind(player.overallRating),
     potential |-> bind(player.potential),
     market_value |-> bind(player.marketValue),
     wage |-> bind(player.wage),
     release_clause |-> bind(player.releaseClause),
     contract_expiry |->
        IF player.contractExpiry[1] = "date"
        THEN bind(toISOString(player.contractExpiry)) ELSE SqlNull,
     attributes |-> bind(JSONstringify(player.attributes)),
     last_updated |-> bind(toISOString(player.lastUpdated))]

addPlayer(tbl, player) ==
    LET row == addPlayerParams(player)
    IN IF PrimaryKeyOk(row) /\ NotNullOk(row)
       THEN [ok |-> TRUE, table |-> InsertOrReplace(tbl, row)]
       ELSE [ok |-> FALSE, table |-> tbl]

(***************************************************************************)
(* Reading a stored row back (rowToPlayer): JSON.parse of the attributes   *)
(* text, new Date of the stored ISO texts.                                 *)
(***************************************************************************)
column(v) ==
    CASE v[1] = "int" -> JsNum(v[2])
      [] v[1] = "text" -> JsStr(v[2])
      [] OTHER -> JsNull

\* JavaScript truthiness: 0, NaN, '', null and undefined are falsy.
truthy(v) ==
    CASE v[1] = "num" -> v[2] # 0
      [] v[1] = "str" -> v[2] # <<>>
      [] v[1] \in {"nan", "undefined", "jsnull"} -> FALSE
      [] OTHER -> TRUE

RECURSIVE DigitsPrefixLen(_)
DigitsPrefixLen(chars) ==
    IF chars # <<>> /\ IsDigit(Head(chars)) THEN 1 + DigitsPrefixLen(Tail(chars)) ELSE 0

RECURSIVE DigitsValue(_, _)
DigitsValue(chars, acc) ==
    IF chars = <<>> THEN acc
    ELSE DigitsValue(Tail(chars), 10 * acc + DigitValue(Head(chars)))

(***************************************************************************)
(* The Date constructor on a text.  The texts the model reads are the      *)
(* instant texts toISOString writes, calendar dates "YYYY-MM-DD" and years *)
(* "YYYY", which denote the beginning of that day or year in UTC; any      *)
(* other text the model draws is one the parser rejects (Invalid Date).    *)
(***************************************************************************)
InvalidDate == <<"invalid-date">>

isLeapYear(y) == (y % 4 = 0 /\ y % 100 # 0) \/ y % 400 = 0

daysInMonth(y, m) ==
    IF m = 2 THEN (IF isLeapYear(y) THEN 29 ELSE 28)
    ELSE IF m \in {4, 6, 9, 11} THEN 30 ELSE 31

\* The day number of the calendar date y-m-d (days since 1970-01-01).
daysFromCivil(y, m, d) ==
    LET yy == IF m <= 2 THEN y - 1 ELSE y
        era == yy \div 400
        yoe == yy - era * 400
        mp == IF m > 2 THEN m - 3 ELSE m + 9
        doy == (153 * mp + 2) \div 5 + d - 1
        doe == yoe * 365 + yoe \div 4 - yoe \div 100 + doy
    IN era * 146097 + doe - 719468

\* The calendar date <<y, m, d>> of a day number.
civilFromDays(t) ==
    LET z == t + 719468
        era == z \div 146097
        doe == z - era * 146097
        yoe == (doe - doe \div 1460 + doe \div 36524 - doe \div 146096) \div 365
        doy == doe - (365 * yoe + yoe \div 4 - yoe \div 100)
        mp == (5 * doy + 2) \div 153
        d == doy - (153 * mp + 2) \div 5 + 1
        m == IF mp < 10 THEN mp + 3 ELSE mp - 9
        y == yoe + era * 400
    IN <<IF m <= 2 THEN y + 1 ELSE y, m, d>>

pad2(n) == IF n < 10 THEN <<"0">> \o NatChars(n) ELSE NatChars(n)

calendarText(y, m, d) == NatChars(y) \o <<"-">> \o pad2(m) \o <<"-">> \o pad2(d)

allDigits(chars) == chars # <<>> /\ \A k \in 1 .. Len(chars) : IsDigit(chars[k])

isInstantText(chars) ==
    Len(chars) >= 2 /\ chars[1] = "D" /\ allDigits(Tail(chars))

isCalendarText(chars) ==
    /\ Len(chars) = 10
    /\ chars[5] = "-" /\ chars[8] = "-"
    /\ allDigits(SubSeq(chars, 1, 4)) /\ allDigits(SubSeq(chars, 6, 7))
    /\ allDigits(SubSeq(chars, 9, 10))
    /\ LET y == DigitsValue(SubSeq(chars, 1, 4), 0)
           m == DigitsValue(SubSeq(chars, 6, 7), 0)
           d == DigitsValue(SubSeq(chars, 9, 10), 0)
       IN m \in 1 .. 12 /\ d \in 1 .. daysInMonth(y, m)

isYearText(chars) == Len(chars) = 4 /\ allDigits(chars)

newDate(v) ==
    IF v[1] = "str" /\ isInstantText(v[2]) THEN JsDate(DigitsValue(Tail(v[2]), 0))
    ELSE IF v[1] = "str" /\ isYearText(v[2])
    THEN JsDate(daysFromCivil(DigitsValue(v[2], 0), 1, 1))
    ELSE IF v[1] = "str" /\ isCalendarText(v[2])
    THEN JsDate(daysFromCivil(DigitsValue(SubSeq(v[2], 1, 4), 0),
                              DigitsValue(SubSeq(v[2], 6, 7), 0),
                              DigitsValue(SubSeq(v[2], 9, 10), 0)))
    ELSE InvalidDate

ParseFailed == <<"SyntaxError">>

\* The members of the attributes object, from position i of the text on.
RECURSIVE ParseMembers(_, _, _)
ParseMembers(chars, k, obj) ==
    IF Len(chars) < 3 \/ chars[1] # AttributeNames[k] \/ chars[2] # ":" THEN ParseFailed
    ELSE LET rest == SubSeq(chars, 3, Len(chars))
             n == DigitsPrefixLen(rest)
             after == SubSeq(rest, n + 1, Len(rest))
             got == obj @@ (AttributeNames[k] :> DigitsValue(SubSeq(rest, 1, n), 0))
         IN IF n = 0 \/ after = <<>> THEN ParseFailed
            ELSE IF k = Len(AttributeNames)
                 THEN (IF after = <<"}">> THEN got ELSE ParseFailed)
                 ELSE IF Head(after) = "," THEN ParseMembers(Tail(after), k + 1, got)
                 ELSE ParseFailed

JSONparse(chars) ==
    IF chars # <<>> /\ Head(chars) = "{"
    THEN ParseMembers(Tail(chars), 1, <<>>)
    ELSE ParseFailed

FallbackAttributes ==
    [pace |-> 50, shooting |-> 50, passing |-> 50, dribbling |-> 50, defending |-> 50,
     physical |-> 50]

rowToPlayer(row) ==
    [id |-> column(row.id),
     name |-> column(row.name),
     age |-> column(row.age),
     nationality |-> column(row.nationality),
     club |-> column(row.club),
     league |-> column(row.league),
     position |-> column(row.position),
     preferredFoot |-> column(row.preferred_foot),
     overallRating |-> column(row.overall_rating),
     potential |-> column(row.potential),
     marketValue |-> column(row.market_value),
     wage |-> column(row.wage),
     releaseClause |-> column(row.release_clause),
     attributes |->
        IF IsSqlText(row.attributes)
        THEN LET parsed == JSONparse(row.attributes[2])
             IN IF parsed = ParseFailed THEN FallbackAttributes ELSE parsed
        ELSE column(row.attributes),
     contractExpiry |->
        IF truthy(column(row.contract_expiry))
        THEN newDate(column(row.contract_expiry)) ELSE JsUndefined,
     lastUpdated |-> newDate(column(row.last_updated))]

(***************************************************************************)
(* SQLite operators used by the queries.  A comparison with NULL is NULL,  *)
(* which a WHERE clause treats as false; an INTEGER sorts before a TEXT.   *)
(***************************************************************************)
sqlEq(a, b) == a # SqlNull /\ b # SqlNull /\ a = b

sqlLe(a, b) ==
    /\ a # SqlNull
    /\ b # SqlNull
    /\ IF a[1] = b[1]
       THEN (IF a[1] = "int" THEN a[2] <= b[2] ELSE a[2] = b[2] \/ TextLess(a[2], b[2]))
       ELSE a[1] = "int"

sqlGe(a, b) == sqlLe(b, a)

\* patternCompare for LIKE: % matches any run of characters, _ any single
\* character, any other character itself up to ASCII case.
RECURSIVE patternCompare(_, _)
patternCompare(pattern, str) ==
    IF pattern = <<>> THEN str = <<>>
    ELSE IF Head(pattern) = "%"
         THEN patternCompare(Tail(pattern), str)
              \/ (str # <<>> /\ patternCompare(pattern, Tail(str)))
    ELSE /\ str # <<>>
         /\ Head(pattern) = "_" \/ ToLower(Head(pattern)) = ToLower(Head(str))
         /\ patternCompare(Tail(pattern), Tail(str))

sqlLike(value, pattern) ==
    value # SqlNull /\ pattern # SqlNull /\ IsSqlText(value) /\ IsSqlText(pattern)
    /\ patternCompare(pattern[2], value[2])

\* The pattern without the surrounding wildcards.
bareText(v) == v

\* The template literal `%${text}%`.
percentWrap(v) == JsStr(<<"%">> \o v[2] \o <<"%">>)

(***************************************************************************)
(* PlayerDatabase.searchPlayers: the WHERE clause grows by one condition   *)
(* per truthy criterion, then ORDER BY overall_rating DESC, market_value   *)
(* DESC and LIMIT, then rowToPlayer on every row.                          *)
(***************************************************************************)
NoCriteria ==
    [position |-> JsUndefined, minOverall |-> JsUndefined, maxAge |-> JsUndefined,
     maxPrice |-> JsUndefined, minPotential |-> JsUndefined,
     nationality |-> JsUndefined, league |-> JsUndefined, club |-> JsUndefined]

negative(v) == IsJsNum(v) /\ v[2] < 0

\* A presence test that leaves out negative numbers as well.
presentInRange(v) == truthy(v) /\ ~negative(v)

\* A presence test that takes every value but undefined, 0 and the empty
\* text included.
presentUnlessUndefined(v) == v # JsUndefined

\* if (criteria.x): the condition is added only for a truthy value.
present(v) == truthy(v)

whereClause(row, criteria) ==
    /\ present(criteria.position) => sqlEq(row.position, bind(criteria.position))
    /\ present(criteria.minOverall) => sqlGe(row.overall_rating, bind(criteria.minOverall))
    /\ present(criteria.maxAge) => sqlLe(row.age, bind(criteria.maxAge))
    /\ present(criteria.maxPrice) => sqlLe(row.market_value, bind(criteria.maxPrice))
    /\ present(criteria.minPotential) => sqlGe(row.potential, bind(criteria.minPotential))
    /\ present(criteria.nationality) =>
            sqlLike(row.nationality, bind(percentWrap(criteria.nationality)))
    /\ present(criteria.league) => sqlLike(row.league, bind(percentWrap(criteria.league)))
    /\ present(criteria.club) => sqlLike(row.club, bind(percentWrap(criteria.club)))

RECURSIVE selectWhere(_, _)
selectWhere(tbl, criteria) ==
    IF tbl = <<>> THEN <<>>
    ELSE (IF whereClause(Head(tbl), criteria) THEN <<Head(tbl)>> ELSE <<>>)
         \o selectWhere(Tail(tbl), criteria)

\* ORDER BY overall_rating DESC, market_value DESC: a comes strictly first.
ranksAbove(a, b) ==
    \/ a.overall_rating[2] > b.overall_rating[2]
    \/ a.overall_rating[2] = b.overall_rating[2] /\ a.market_value[2] > b.market_value[2]

\* The sorter keeps rows of equal rank in scan (rowid) order.
RECURSIVE insertRanked(_, _)
insertRanked(sorted, row) ==
    IF sorted = <<>> THEN <<row>>
    ELSE IF ranksAbove(row, Head(sorted)) THEN <<row>> \o sorted
    ELSE <<Head(sorted)>> \o insertRanked(Tail(sorted), row)

RECURSIVE orderByRank(_)
orderByRank(rows) ==
    IF rows = <<>> THEN <<>>
    ELSE insertRanked(orderByRank(SubSeq(rows, 1, Len(rows) - 1)), rows[Len(rows)])

\* LIMIT n: a negative n is no limit.
sqlLimit(rows, n) ==
    IF n < 0 \/ n >= Len(rows) THEN rows ELSE SubSeq(rows, 1, n)

mapRowToPlayer(rows) == [i \in 1 .. Len(rows) |-> rowToPlayer(rows[i])]

\* The cap before the sort: the first rows in scan order, then sorted.
limitThenOrder(tbl, criteria, limit) == orderByRank(sqlLimit(selectWhere(tbl, criteria), limit))

searchRows(tbl, criteria, limit) == sqlLimit(orderByRank(selectWhere(tbl, criteria)), limit)

searchPlayers(tbl, criteria, limit) == mapRowToPlayer(searchRows(tbl, criteria, limit))

(***************************************************************************)
(* Numbers that are not integers are fractions <<"rat", n, d>> with d > 0; *)
(* 0/0 is NaN.                                                             *)
(***************************************************************************)
Rat(n, d) == <<"rat", n, d>>
ratEq(a, b) == a[2] * b[3] = b[2] * a[3]
ratAdd(a, b) == Rat(a[2] * b[3] + b[2] * a[3], a[3] * b[3])
ratMulInt(a, k) == Rat(a[2] * k, a[3])
ratDivInt(a, k) == IF k = 0 THEN JsNaN ELSE Rat(a[2], a[3] * k)

\* Math.round: the nearest integer, halves up.
mathRound(a) == (2 * a[2] + a[3]) \div (2 * a[3])

RECURSIVE sumColumn(_, _)
sumColumn(rows, col) ==
    IF rows = <<>> THEN 0 ELSE rows[1][col][2] + sumColumn(Tail(rows), col)

RECURSIVE sortTexts(_)
sortTexts(S) ==
    IF S = {} THEN <<>>
    ELSE LET least == CHOOSE t \in S : \A u \in S \ {t} : TextLess(t, u)
         IN <<least>> \o sortTexts(S \ {least})

RECURSIVE selectBy(_, _, _)
selectBy(tbl, col, value) ==
    IF tbl = <<>> THEN <<>>
    ELSE (IF Head(tbl)[col] = value THEN <<Head(tbl)>> ELSE <<>>)
         \o selectBy(Tail(tbl), col, value)

(***************************************************************************)
(* PlayerDatabase.getStats: one result row per position (GROUP BY), then   *)
(* the totals combined from the group rows.                                *)
(***************************************************************************)
groupByPosition(tbl) ==
    LET keys == sortTexts({tbl[i].position[2] : i \in 1 .. Len(tbl)})
        group(k) == selectBy(tbl, "position", SqlText(keys[k]))
    IN [k \in 1 .. Len(keys) |->
           [position |-> keys[k],
            position_count |-> Len(group(k)),
            total_players |-> Len(group(k)),
            avg_rating |-> Rat(sumColumn(group(k), "overall_rating"), Len(group(k))),
            avg_value |-> Rat(sumColumn(group(k), "market_value"), Len(group(k))),
            avg_age |-> Rat(sumColumn(group(k), "age"), Len(group(k)))]]

RECURSIVE reduceCount(_)
reduceCount(rows) ==
    IF rows = <<>> THEN 0 ELSE reduceCount(SubSeq(rows, 1, Len(rows) - 1)) + rows[Len(rows)].position_count

RECURSIVE reduceWeighted(_, _)
reduceWeighted(rows, avg) ==
    IF rows = <<>> THEN Rat(0, 1)
    ELSE ratAdd(reduceWeighted(SubSeq(rows, 1, Len(rows) - 1), avg),
                ratMulInt(rows[Len(rows)][avg], rows[Len(rows)].position_count))

RECURSIVE reduceAverages(_, _)
reduceAverages(rows, avg) ==
    IF rows = <<>> THEN Rat(0, 1)
    ELSE ratAdd(reduceAverages(SubSeq(rows, 1, Len(rows) - 1), avg), rows[Len(rows)][avg])

\* The average of the group averages, each group counting once.
naiveAverage(rows, avg) == ratDivInt(reduceAverages(rows, avg), Len(rows))

\* rows.reduce((sum, row) => sum + row.avg * row.position_count, 0) / totalPlayers
combinedAverage(rows, avg) == ratDivInt(reduceWeighted(rows, avg), reduceCount(rows))

roundTo(a, scale) ==
    IF a = JsNaN THEN JsNaN ELSE Rat(mathRound(ratMulInt(a, scale)), scale)

\* enum Position
Positions ==
    {<<"G", "K">>, <<"C", "B">>, <<"L", "B">>, <<"R", "B">>, <<"L", "W", "B">>,
     <<"R", "W", "B">>, <<"C", "D", "M">>, <<"C", "M">>, <<"C", "A", "M">>, <<"L", "M">>,
     <<"R", "M">>, <<"L", "W">>, <<"R", "W">>, <<"C", "F">>, <<"S", "T">>}

\* A positionCounts that starts from a zero for every position of the enum.
zeroFilledPositionCounts(rows) ==
    [p \in Positions |->
        IF \E k \in 1 .. Len(rows) : rows[k].position = p
        THEN (CHOOSE r \in {rows[k] : k \in 1 .. Len(rows)} : r.position = p).position_count
        ELSE 0]

reducePositionCounts(rows) ==
    [p \in {rows[k].position : k \in 1 .. Len(rows)} |->
        LET k == CHOOSE j \in 1 .. Len(rows) :
                    rows[j].position = p
                    /\ \A l \in (j + 1) .. Len(rows) : rows[l].position # p
        IN rows[k].position_count]

getStats(tbl) ==
    LET rows == groupByPosition(tbl)
    IN [totalPlayers |-> reduceCount(rows),
        averageRating |-> roundTo(combinedAverage(rows, "avg_rating"), 10),
        averageValue |-> roundTo(combinedAverage(rows, "avg_value"), 1),
        averageAge |-> roundTo(combinedAverage(rows, "avg_age"), 10),
        positionCounts |-> reducePositionCounts(rows)]

(***************************************************************************)
(* PlayerDatabase.getLeagues: SELECT DISTINCT league ... ORDER BY league.  *)
(***************************************************************************)
\* SELECT league without DISTINCT: one value per row that has a league.
RECURSIVE leagueOfEveryRow(_)
leagueOfEveryRow(tbl) ==
    IF tbl = <<>> THEN <<>>
    ELSE (IF Head(tbl).league # SqlNull /\ Head(tbl).league # SqlText(<<>>)
          THEN <<JsStr(Head(tbl).league[2])>> ELSE <<>>)
         \o leagueOfEveryRow(Tail(tbl))

getLeagues(tbl) ==
    LET present_ == {tbl[i].league[2] :
                        i \in {j \in 1 .. Len(tbl) :
                                  tbl[j].league # SqlNull /\ tbl[j].league # SqlText(<<>>)}}
        sorted == sortTexts(present_)
    IN [k \in 1 .. Len(sorted) |-> JsStr(sorted[k])]

(***************************************************************************)
(* PlayerDatabase.getContinentCountries and getContinents.                 *)
(***************************************************************************)
Countries_Europe ==
    <<<<"S", "p", "a", "i", "n">>,
     <<"F", "r", "a", "n", "c", "e">>,
     <<"N", "e", "t", "h", "e", "r", "l", "a", "n", "d", "s">>,
     <<"P", "o", "r", "t", "u", "g", "a", "l">>,
     <<"E", "n", "g", "l", "a", "n", "d">>,
     <<"I", "t", "a", "l", "y">>,
     <<"G", "e", "r", "m", "a", "n", "y">>,
     <<"S", "w", "e", "d", "e", "n">>,
     <<"N", "o", "r", "w", "a", "y">>,
     <<"C", "r", "o", "a", "t", "i", "a">>,
     <<"P", "o", "l", "a", "n", "d">>,
     <<"H", "u", "n", "g", "a", "r", "y">>,
     <<"D", "e", "n", "m", "a", "r", "k">>,
     <<"U", "k", "r", "a", "i", "n", "e">>,
     <<"S", "c", "o", "t", "l", "a", "n", "d">>,
     <<"F", "i", "n", "l", "a", "n", "d">>,
     <<"C", "z", "e", "c", "h", "i", "a">>,
     <<"B", "e", "l", "g", "i", "u", "m">>,
     <<"A", "u", "s", "t", "r", "i", "a">>,
     <<"S", "w", "i", "t", "z", "e", "r", "l", "a", "n", "d">>,
     <<"G", "r", "e", "e", "c", "e">>,
     <<"S", "e", "r", "b", "i", "a">>,
     <<"T", "u", "r", "k", "e", "y">>,
     <<"R", "u", "s", "s", "i", "a">>,
     <<"R", "o", "m", "a", "n", "i", "a">>,
     <<"B", "u", "l", "g", "a", "r", "i", "a">>,
     <<"S", "l", "o", "v", "e", "n", "i", "a">>,
     <<"S", "l", "o", "v", "a", "k", "i", "a">>,
     <<"I", "r", "e", "l", "a", "n", "d">>,
     <<"W", "a", "l", "e", "s">>,
     <<"I", "c", "e", "l", "a", "n", "d">>,
     <<"B", "o", "s", "n", "i", "a", " ", "a", "n", "d", " ", "H", "e", "r", "z", "e", "g", "o", "v", "i", "n", "a">>,
     <<"N", "o", "r", "t", "h", " ", "M", "a", "c", "e", "d", "o", "n", "i", "a">>,
     <<"A", "l", "b", "a", "n", "i", "a">>,
     <<"M", "o", "n", "t", "e", "n", "e", "g", "r", "o">>,
     <<"L", "i", "t", "h", "u", "a", "n", "i", "a">>,
     <<"L", "a", "t", "v", "i", "a">>,
     <<"E", "s", "t", "o", "n", "i", "a">>>>

Countries_SouthAmerica ==
    <<<<"A", "r", "g", "e", "n", "t", "i", "n", "a">>,
     <<"B", "r", "a", "z", "i", "l">>,
     <<"U", "r", "u", "g", "u", "a", "y">>,
     <<"C", "o", "l", "o", "m", "b", "i", "a">>,
     <<"C", "h", "i", "l", "e">>,
     <<"P", "e", "r", "u">>,
     <<"E", "c", "u", "a", "d", "o", "r">>,
     <<"P", "a", "r", "a", "g", "u", "a", "y">>,
     <<"B", "o", "l", "i", "v", "i", "a">>,
     <<"V", "e", "n", "e", "z", "u", "e", "l", "a">>,
     <<"G", "u", "y", "a", "n", "a">>,
     <<"S", "u", "r", "i", "n", "a", "m", "e">>>>

Countries_NorthAmerica ==
    <<<<"U", "n", "i", "t", "e", "d", " ", "S", "t", "a", "t", "e", "s">>,
     <<"M", "e", "x", "i", "c", "o">>,
     <<"C", "a", "n", "a", "d", "a">>,
     <<"C", "o", "s", "t", "a", " ", "R", "i", "c", "a">>,
     <<"H", "o", "n", "d", "u", "r", "a", "s">>,
     <<"G", "u", "a", "t", "e", "m", "a", "l", "a">>,
     <<"P", "a", "n", "a", "m", "a">>,
     <<"E", "l", " ", "S", "a", "l", "v", "a", "d", "o", "r">>,
     <<"N", "i", "c", "a", "r", "a", "g", "u", "a">>,
     <<"J", "a", "m", "a", "i", "c", "a">>,
     <<"T", "r", "i", "n", "i", "d", "a", "d", " ", "a", "n", "d", " ", "T", "o", "b", "a", "g", "o">>>>

Countries_Africa ==
    <<<<"M", "o", "r", "o", "c", "c", "o">>,
     <<"G", "h", "a", "n", "a">>,
     <<"N", "i", "g", "e", "r", "i", "a">>,
     <<"E", "g", "y", "p", "t">>,
     <<"S", "o", "u", "t", "h", " ", "A", "f", "r", "i", "c", "a">>,
     <<"T", "u", "n", "i", "s", "i", "a">>,
     <<"A", "l", "g", "e", "r", "i", "a">>,
     <<"S", "e", "n", "e", "g", "a", "l">>,
     <<"C", "a", "m", "e", "r", "o", "o", "n">>,
     <<"I", "v", "o", "r", "y", " ", "C", "o", "a", "s", "t">>,
     <<"M", "a", "l", "i">>,
     <<"B", "u", "r", "k", "i", "n", "a", " ", "F", "a", "s", "o">>,
     <<"K", "e", "n", "y", "a">>,
     <<"E", "t", "h", "i", "o", "p", "i", "a">>,
     <<"Z", "i", "m", "b", "a", "b", "w", "e">>,
     <<"Z", "a", "m", "b", "i", "a">>,
     <<"A", "n", "g", "o", "l", "a">>,
     <<"M", "a", "d", "a", "g", "a", "s", "c", "a", "r">>,
     <<"M", "o", "z", "a", "m", "b", "i", "q", "u", "e">>>>

Countries_Asia ==
    <<<<"J", "a", "p", "a", "n">>,
     <<"S", "o", "u", "t", "h", " ", "K", "o", "r", "e", "a">>,
     <<"C", "h", "i", "n", "a">>,
     <<"I", "n", "d", "i", "a">>,
     <<"T", "h", "a", "i", "l", "a", "n", "d">>,
     <<"I", "r", "a", "n">>,
     <<"I", "r", "a", "q">>,
     <<"S", "a", "u", "d", "i", " ", "A", "r", "a", "b", "i", "a">>,
     <<"U", "A", "E">>,
     <<"Q", "a", "t", "a", "r">>,
     <<"K", "u", "w", "a", "i", "t">>,
     <<"J", "o", "r", "d", "a", "n">>,
     <<"L", "e", "b", "a", "n", "o", "n">>,
     <<"S", "y", "r", "i", "a">>,
     <<"I", "s", "r", "a", "e", "l">>,
     <<"P", "a", "l", "e", "s", "t", "i", "n", "e">>,
     <<"V", "i", "e", "t", "n", "a", "m">>,
     <<"M", "a", "l", "a", "y", "s", "i", "a">>,
     <<"S", "i", "n", "g", "a", "p", "o", "r", "e">>,
     <<"I", "n", "d", "o", "n", "e", "s", "i", "a">>,
     <<"P", "h", "i", "l", "i", "p", "p", "i", "n", "e", "s">>,
     <<"M", "y", "a", "n", "m", "a", "r">>,
     <<"C", "a", "m", "b", "o", "d", "i", "a">>,
     <<"L", "a", "o", "s">>,
     <<"N", "o", "r", "t", "h", " ", "K", "o", "r", "e", "a">>,
     <<"M", "o", "n", "g", "o", "l", "i", "a">>,
     <<"K", "a", "z", "a", "k", "h", "s", "t", "a", "n">>,
     <<"U", "z", "b", "e", "k", "i", "s", "t", "a", "n">>,
     <<"K", "y", "r", "g", "y", "z", "s", "t", "a", "n">>,
     <<"T", "a", "j", "i", "k", "i", "s", "t", "a", "n">>,
     <<"T", "u", "r", "k", "m", "e", "n", "i", "s", "t", "a", "n">>,
     <<"A", "f", "g", "h", "a", "n", "i", "s", "t", "a", "n">>,
     <<"P", "a", "k", "i", "s", "t", "a", "n">>,
     <<"B", "a", "n", "g", "l", "a", "d", "e", "s", "h">>,
     <<"S", "r", "i", " ", "L", "a", "n", "k", "a">>,
     <<"N", "e", "p", "a", "l">>,
     <<"B", "h", "u", "t", "a", "n">>>>

Countries_Oceania ==
    <<<<"A", "u", "s", "t", "r", "a", "l", "i", "a">>,
     <<"N", "e", "w", " ", "Z", "e", "a", "l", "a", "n", "d">>,
     <<"F", "i", "j", "i">>,
     <<"P", "a", "p", "u", "a", " ", "N", "e", "w", " ", "G", "u", "i", "n", "e", "a">>,
     <<"S", "o", "l", "o", "m", "o", "n", " ", "I", "s", "l", "a", "n", "d", "s">>,
     <<"V", "a", "n", "u", "a", "t", "u">>,
     <<"S", "a", "m", "o", "a">>,
     <<"T", "o", "n", "g", "a">>,
     <<"P", "a", "l", "a", "u">>,
     <<"M", "a", "r", "s", "h", "a", "l", "l", " ", "I", "s", "l", "a", "n", "d", "s">>,
     <<"M", "i", "c", "r", "o", "n", "e", "s", "i", "a">>>>

ContinentNames ==
    <<"Europe", "South America", "North America", "Africa", "Asia", "Oceania">>

\* Names every object literal inherits from Object.prototype: a lookup of
\* continentMap under one of them finds a function or an object, which is
\* truthy and no array.
InheritedKeys == {"constructor", "toString", "valueOf", "hasOwnProperty", "__proto__"}

\* continentMap[continent] || []
getContinentCountries(continent) ==
    CASE continent = "Europe" -> Countries_Europe
      [] continent = "South America" -> Countries_SouthAmerica
      [] continent = "North America" -> Countries_NorthAmerica
      [] continent = "Africa" -> Countries_Africa
      [] continent = "Asia" -> Countries_Asia
      [] continent = "Oceania" -> Countries_Oceania
      [] continent \in InheritedKeys -> <<"inherited", continent>>
      [] OTHER -> <<>>

\* The value has the method map of an array.
isArray(continent) == continent \notin InheritedKeys

\* A membership test that takes letters of either case as the same.
includesIgnoringCase(list, text) ==
    \E i \in 1 .. Len(list) :
       /\ Len(list[i]) = Len(text)
       /\ \A k \in 1 .. Len(text) : ToLower(list[i][k]) = ToLower(text[k])

\* Array.prototype.includes: strict equality with an element.
includes(list, text) == \E i \in 1 .. Len(list) : list[i] = text

\* The first continent, in the order of the loop, whose list includes the
\* nationality; 0 when none does.
firstContinent(nationality) ==
    IF \E c \in 1 .. Len(ContinentNames) :
          includes(getContinentCountries(ContinentNames[c]), nationality)
    THEN CHOOSE c \in 1 .. Len(ContinentNames) :
            /\ includes(getContinentCountries(ContinentNames[c]), nationality)
            /\ \A b \in 1 .. (c - 1) :
                  ~includes(getContinentCountries(ContinentNames[b]), nationality)
    ELSE 0

\* SELECT nationality, COUNT(*) ... GROUP BY nationality
groupByNationality(tbl) ==
    LET kept == {i \in 1 .. Len(tbl) :
                    /\ tbl[i].nationality # SqlNull
                    /\ tbl[i].nationality # SqlText(<<>>)
                    /\ tbl[i].nationality # SqlText(<<"U", "n", "k", "n", "o", "w", "n">>)}
        keys == sortTexts({tbl[i].nationality[2] : i \in kept})
    IN [k \in 1 .. Len(keys) |->
           [nationality |-> keys[k],
            count |-> Cardinality({i \in kept : tbl[i].nationality[2] = keys[k]})]]

RECURSIVE continentCount(_, _)
continentCount(rows, c) ==
    IF rows = <<>> THEN 0
    ELSE (IF firstContinent(Head(rows).nationality) = c THEN Head(rows).count ELSE 0)
         + continentCount(Tail(rows), c)

\* Array.prototype.sort by playerCount descending; equal counts keep their order.
RECURSIVE insertByCount(_, _)
insertByCount(sorted, e) ==
    IF sorted = <<>> THEN <<e>>
    ELSE IF e.playerCount > Head(sorted).playerCount THEN <<e>> \o sorted
    ELSE <<Head(sorted)>> \o insertByCount(Tail(sorted), e)

\* The entries in the order of continentCounts, not sorted.
insertionOrder(entries) == entries

RECURSIVE sortByCount(_)
sortByCount(entries) ==
    IF entries = <<>> THEN <<>>
    ELSE insertByCount(sortByCount(SubSeq(entries, 1, Len(entries) - 1)), entries[Len(entries)])

RECURSIVE filterPositive(_)
filterPositive(entries) ==
    IF entries = <<>> THEN <<>>
    ELSE (IF Head(entries).playerCount > 0 THEN <<Head(entries)>> ELSE <<>>)
         \o filterPositive(Tail(entries))

getContinents(tbl) ==
    LET rows == groupByNationality(tbl)
        entries == [c \in 1 .. Len(ContinentNames) |->
                       [continent |-> ContinentNames[c],
                        playerCount |-> continentCount(rows, c)]]
    IN sortByCount(filterPositive(entries))

(***************************************************************************)
(* db.all(sql, params, callback) with a SELECT statement: the callback      *)
(* gets the selected rows, the table is as it was.                         *)
(***************************************************************************)
\* A statement that removes the rows it returns.
dbAllConsuming(tbl, selected) ==
    [rows |-> selected,
     table |-> LET left == {i \in 1 .. Len(tbl) : \A k \in 1 .. Len(selected) :
                                                        selected[k].id # tbl[i].id}
                   nth(j) == CHOOSE i \in left : Cardinality({m \in left : m <= i}) = j
               IN [j \in 1 .. Cardinality(left) |-> tbl[nth(j)]]]

dbAll(tbl, selected) == [rows |-> selected, table |-> tbl]

(***************************************************************************)
(* PlayerDatabase.getPlayersByLeague and getPlayersByContinent: WHERE,     *)
(* ORDER BY overall_rating DESC, market_value DESC, LIMIT, rowToPlayer.    *)
(***************************************************************************)
\* The rows of the table the WHERE clause holds for, in scan order.
selectRows(tbl, where(_)) ==
    LET kept == {i \in 1 .. Len(tbl) : where(tbl[i])}
        nth(j) == CHOOSE i \in kept : Cardinality({m \in kept : m <= i}) = j
    IN [j \in 1 .. Cardinality(kept) |-> tbl[nth(j)]]

\* WHERE league = ? AND overall_rating >= ?
leagueRows(tbl, league, minRating, limit) ==
    LET where(row) == /\ sqlEq(row.league, bind(league))
                      /\ sqlGe(row.overall_rating, bind(minRating))
    IN sqlLimit(orderByRank(selectRows(tbl, where)), limit)

getPlayersByLeague(tbl, league, minRating, limit) ==
    mapRowToPlayer(leagueRows(tbl, league, minRating, limit))

\* nationality IN (?, ..., ?): NULL is in no list, and in the empty list is
\* nothing.
sqlIn(a, list) == a # SqlNull /\ a[1] = "text" /\ includes(list, a[2])

\* WHERE nationality IN (...) AND overall_rating >= ?
continentRows(tbl, continentCountries, minRating, limit) ==
    LET where(row) == /\ sqlIn(row.nationality, continentCountries)
                      /\ sqlGe(row.overall_rating, bind(minRating))
    IN sqlLimit(orderByRank(selectRows(tbl, where)), limit)

\* continentCountries.map(() => '?') throws a TypeError when the value
\* looked up is no array: the promise is rejected.
getPlayersByContinent(tbl, continent, minRating, limit) ==
    IF isArray(continent)
    THEN [rejected |-> FALSE,
          value |-> mapRowToPlayer(continentRows(tbl, getContinentCountries(continent),
                                                 minRating, limit))]
    ELSE [rejected |-> TRUE, value |-> <<>>]

(***************************************************************************)
(* The players the store actions are called with.                          *)
(***************************************************************************)
T_Spain == <<"S", "p", "a", "i", "n">>
T_Japan == <<"J", "a", "p", "a", "n">>
T_Unknown == <<"U", "n", "k", "n", "o", "w", "n">>
T_Right == <<"R", "i", "g", "h", "t">>
T_ST == <<"S", "T">>
T_GK == <<"G", "K">>
T_CM == <<"C", "M">>

ZeroAttributes ==
    [pace |-> 0, shooting |-> 0, passing |-> 0, dribbling |-> 0, defending |-> 0,
     physical |-> 0]

\* Three stat profiles: a full record, a free agent with defaults, and a
\* record whose currency and age did not parse (NaN).
Profiles ==
    {[name |-> JsStr(<<"A", "b">>), age |-> JsNum(20), nationality |-> JsStr(T_Spain),
      club |-> JsStr(<<"F", "C">>), league |-> JsStr(<<"L", "a">>),
      preferredFoot |-> JsStr(<<"L">>), overallRating |-> JsNum(90),
      potential |-> JsNum(95), marketValue |-> JsNum(5), wage |-> JsNum(2),
      releaseClause |-> JsNum(9), contractExpiry |-> JsDate(3), lastUpdated |-> JsDate(1)],
     [name |-> JsStr(<<"C", "d">>), age |-> JsNum(30), nationality |-> JsStr(T_Unknown),
      club |-> JsUndefined, league |-> JsUndefined,
      preferredFoot |-> JsStr(T_Right), overallRating |-> JsNum(70),
      potential |-> JsNum(70), marketValue |-> JsNum(0), wage |-> JsNaN,
      releaseClause |-> JsNum(0), contractExpiry |-> JsUndefined, lastUpdated |-> JsDate(2)],
     [name |-> JsStr(<<"E">>), age |-> JsNaN, nationality |-> JsStr(T_Japan),
      club |-> JsStr(<<"F", "C">>), league |-> JsStr(<<"L", "a">>),
      preferredFoot |-> JsStr(T_Right), overallRating |-> JsNum(75),
      potential |-> JsNum(75), marketValue |-> JsNaN, wage |-> JsNum(0),
      releaseClause |-> JsNum(0), contractExpiry |-> JsUndefined, lastUpdated |-> JsDate(2)]}

MakePlayer(id, position, pr) ==
    [id |-> JsNum(id), name |-> pr.name, age |-> pr.age, nationality |-> pr.nationality,
     club |-> pr.club, league |-> pr.league, position |-> JsStr(position),
     preferredFoot |-> pr.preferredFoot, overallRating |-> pr.overallRating,
     potential |-> pr.potential, marketValue |-> pr.marketValue, wage |-> pr.wage,
     releaseClause |-> pr.releaseClause, attributes |-> ZeroAttributes,
     contractExpiry |-> pr.contractExpiry, lastUpdated |-> pr.lastUpdated]

Ids == 1 .. MaxId

PlayerInputs == {MakePlayer(id, pos, pr) : id \in Ids, pos \in {T_ST, T_GK}, pr \in Profiles}

(***************************************************************************)
(* The store specification: any sequence of addPlayer calls.               *)
(***************************************************************************)
\* A machine on UTC on 15 June 2025.
DefaultHost == [today |-> <<2025, 6, 15>>, zone |-> "utc"]

\* No file has been read and no row parsed.
NoLine == inputLine = <<>> /\ fields = <<>>

\* readFileSync finds no file.
Missing == <<"ENOENT">>

NoFile == csvFile = Missing /\ logged = <<>> /\ loaded = <<>>

NoLoad ==
    /\ rawRow = <<>> /\ normalized = <<>> /\ host = DefaultHost
    /\ NoLine
    /\ dataset = <<>> /\ NoFile /\ pending = <<>> /\ loadsDone = 0 /\ appState = "menu"

\* No searchPlayers call has been made.
NoSearch == askedCriteria = NoCriteria /\ askedLimit = 0 /\ result = <<>>

Init ==
    /\ players = <<>>
    /\ lastAdded = [id \in Ids |-> <<>>]
    /\ lastCall = <<>>
    /\ repeated = FALSE
    /\ overwrote = FALSE
    /\ addResult = FALSE
    /\ stats = <<>> /\ answer = <<>>
    /\ NoSearch
    /\ NoLoad

AddPlayer(p) ==
    LET r == addPlayer(players, p)
    IN /\ players' = r.table
       /\ addResult' = r.ok
       /\ lastAdded' = IF r.ok THEN [lastAdded EXCEPT ![p.id[2]] = <<p>>] ELSE lastAdded
       /\ lastCall' = <<p>>
       /\ repeated' = (lastCall = <<p>>)
       /\ overwrote' = (r.ok /\ lastAdded[p.id[2]] \notin {<<>>, <<p>>})
       /\ UNCHANGED <<queryVars, searchVars, normVars, loadVars>>

Next == \E p \in PlayerInputs : AddPlayer(p)

Spec == Init /\ [][Next]_vars

(***************************************************************************)
(* What a caller can observe of the store: the results of searchPlayers,   *)
(* getStats, getLeagues and getContinents.                                 *)
(***************************************************************************)
ObservedCriteria ==
    {NoCriteria,
     [NoCriteria EXCEPT !.minOverall = JsNum(85)],
     [NoCriteria EXCEPT !.position = JsStr(T_ST), !.maxAge = JsNum(25)],
     [NoCriteria EXCEPT !.nationality = JsStr(<<"a">>)]}

observable(tbl) ==
    [search |-> [c \in ObservedCriteria |-> [l \in {1, 50} |-> searchPlayers(tbl, c, l)]],
     stats |-> getStats(tbl),
     leagues |-> getLeagues(tbl),
     continents |-> getContinents(tbl)]

rowsWithId(id) == {i \in 1 .. Len(players) : players[i].id = SqlInt(id)}

(***************************************************************************)
(* C1: after any sequence of addPlayer calls the store holds at most one   *)
(* record per id, and the record stored under an id is, column for column, *)
(* the record of the most recent successful addPlayer for that id; an id   *)
(* never added successfully has no record.                                 *)
(***************************************************************************)
C1_UpsertReplacesWholeRecord ==
    /\ \A i \in 1 .. Len(players) : players[i].id[2] \in Ids
    /\ \A id \in Ids :
          /\ Cardinality(rowsWithId(id)) <= 1
          /\ lastAdded[id] = <<>> => rowsWithId(id) = {}
          /\ lastAdded[id] # <<>> =>
                \E i \in rowsWithId(id) : players[i] = addPlayerParams(lastAdded[id][1])

\* A successful addPlayer has just replaced a different record of the same id.
C1_Witness == overwrote /\ addResult = TRUE /\ Len(players) >= 2

(***************************************************************************)
(* C2: upsert is idempotent: an addPlayer(r) that directly follows an      *)
(* addPlayer(r) with the same record r leaves every observable result      *)
(* (searchPlayers, getStats, getLeagues, getContinents) as it was.         *)
(***************************************************************************)
C2_UpsertIdempotent ==
    [][repeated' => observable(players') = observable(players)]_vars

\* The same record has just been added twice in a row, successfully.
C2_Witness == repeated /\ addResult = TRUE /\ Len(players) >= 2

(***************************************************************************)
(* The aggregation specification: getStats on a store of up to MaxRows     *)
(* records of any positions, or on the store of the documented example     *)
(* (2 records rated 90 in one position, 8 rated 70 in another).            *)
(***************************************************************************)
RECURSIVE foldAddPlayer(_, _)
foldAddPlayer(tbl, ps) ==
    IF ps = <<>> THEN tbl ELSE foldAddPlayer(addPlayer(tbl, Head(ps)).table, Tail(ps))

StatVariants ==
    {[position |-> pos, profile |-> pr] :
        pos \in {T_ST, T_GK, T_CM}, pr \in {q \in Profiles : q.marketValue # JsNaN}}

StatTables ==
    {foldAddPlayer(<<>>, [i \in 1 .. Len(f) |-> MakePlayer(i, f[i].position, f[i].profile)]) :
        f \in UNION {[1 .. n -> StatVariants] : n \in 0 .. MaxRows}}

RatedProfile(k) == CHOOSE pr \in Profiles : pr.overallRating = JsNum(k)

WeightedExampleTable ==
    foldAddPlayer(<<>>,
        [i \in 1 .. 10 |->
            IF i <= 2 THEN MakePlayer(i, T_ST, RatedProfile(90))
            ELSE MakePlayer(i, T_GK, RatedProfile(70))])

InitStats ==
    /\ players \in StatTables \cup {WeightedExampleTable}
    /\ lastAdded = [id \in Ids |-> <<>>]
    /\ lastCall = <<>>
    /\ repeated = FALSE
    /\ overwrote = FALSE
    /\ addResult = FALSE
    /\ stats = <<>> /\ answer = <<>>
    /\ NoSearch
    /\ NoLoad

GetStats ==
    /\ stats' = <<getStats(players)>>
    /\ UNCHANGED <<storeVars, answer, searchVars, normVars, loadVars>>

NextStats == GetStats

SpecStats == InitStats /\ [][NextStats]_vars

plainMean(tbl, col) == Rat(sumColumn(tbl, col), Len(tbl))

RECURSIVE sumOver(_, _)
sumOver(f, S) ==
    IF S = {} THEN 0 ELSE LET x == CHOOSE y \in S : TRUE IN f[x] + sumOver(f, S \ {x})

(***************************************************************************)
(* C8: for every non-empty store the three averages getStats combines from *)
(* the per-position group averages, weighted by group count, equal the     *)
(* plain mean of the field over all stored records before rounding, so the *)
(* reported figures are the rounded plain means; 2 records averaging 90    *)
(* and 8 averaging 70 give 74.                                             *)
(***************************************************************************)
C8_WeightedAverages ==
    (stats # <<>> /\ players # <<>>) =>
        LET rows == groupByPosition(players)
        IN /\ ratEq(combinedAverage(rows, "avg_rating"), plainMean(players, "overall_rating"))
           /\ ratEq(combinedAverage(rows, "avg_value"), plainMean(players, "market_value"))
           /\ ratEq(combinedAverage(rows, "avg_age"), plainMean(players, "age"))
           /\ stats[1].averageRating = roundTo(plainMean(players, "overall_rating"), 10)
           /\ stats[1].averageValue = roundTo(plainMean(players, "market_value"), 1)
           /\ stats[1].averageAge = roundTo(plainMean(players, "age"), 10)
           /\ players = WeightedExampleTable => stats[1].averageRating = Rat(740, 10)

\* getStats has run on the example store: two position groups of 2 and 8.
C8_Witness ==
    /\ stats # <<>>
    /\ players = WeightedExampleTable
    /\ stats[1].positionCounts[T_ST] = 2
    /\ stats[1].positionCounts[T_GK] = 8

(***************************************************************************)
(* C9: in every getStats result positionCounts has a key for exactly the   *)
(* positions some stored record holds, each value is the number of stored  *)
(* records with that position (never zero), and the values sum to          *)
(* totalPlayers, which is the number of records in the store.              *)
(***************************************************************************)
C9_PositionCounts ==
    stats # <<>> =>
        LET counts == stats[1].positionCounts
        IN /\ DOMAIN counts = {players[i].position[2] : i \in 1 .. Len(players)}
           /\ \A p \in DOMAIN counts :
                 /\ counts[p] = Cardinality({i \in 1 .. Len(players) : players[i].position[2] = p})
                 /\ counts[p] > 0
           /\ sumOver(counts, DOMAIN counts) = stats[1].totalPlayers
           /\ stats[1].totalPlayers = Len(players)

\* getStats has run on a store with two positions, one held by two records.
C9_Witness ==
    /\ stats # <<>>
    /\ Len(players) = 3
    /\ Cardinality(DOMAIN stats[1].positionCounts) = 2

(***************************************************************************)
(* The search specification: one searchPlayers call with any criteria of   *)
(* up to two fields, on a store of up to MaxSearchRows records.            *)
(***************************************************************************)
MaxSearchRows == 2

\* searchPlayers(criteria, limit: number = 50)
DefaultLimit == 50

\* Four players: the full record (ST, 90/95, age 20, value 5, Spain), the
\* free agent (GK, 70/70, age 30, value 0, no club or league), a player of
\* the same rating as the first but a lower value, and a young talent.
SearchPool ==
    {[position |-> T_ST, profile |-> RatedProfile(90)],
     [position |-> T_GK, profile |-> RatedProfile(70)],
     [position |-> T_ST,
      profile |-> [RatedProfile(90) EXCEPT !.potential = JsNum(90), !.age = JsNum(17),
                      !.marketValue = JsNum(0), !.nationality = JsStr(T_Japan),
                      !.club = JsStr(<<"A", "C">>)]],
     [position |-> T_GK,
      profile |-> [RatedProfile(70) EXCEPT !.potential = JsNum(95), !.age = JsNum(17),
                      !.marketValue = JsNum(5), !.nationality = JsStr(T_Spain)]]}

SearchTables ==
    {foldAddPlayer(<<>>, [i \in 1 .. Len(f) |-> MakePlayer(i, f[i].position, f[i].profile)]) :
        f \in UNION {[1 .. n -> SearchPool] : n \in 0 .. MaxSearchRows}}

\* The values a caller passes in each field, besides leaving it out: in
\* range, zero, negative, and texts in either case or empty.
CriteriaValues ==
    [position |-> {JsStr(T_ST), JsStr(T_GK)},
     minOverall |-> {JsNum(85), JsNum(0), JsNum(-1)},
     maxAge |-> {JsNum(25), JsNum(0), JsNum(-1)},
     maxPrice |-> {JsNum(3), JsNum(0), JsNum(-1)},
     minPotential |-> {JsNum(85), JsNum(-1)},
     nationality |-> {JsStr(<<"a">>), JsStr(<<"s", "p">>), JsStr(<<>>)},
     league |-> {JsStr(<<"L", "a">>)},
     club |-> {JsStr(<<"F", "C">>)}]

CriteriaFields == DOMAIN NoCriteria

OneCriterion ==
    UNION {{[NoCriteria EXCEPT ![f] = v] : v \in CriteriaValues[f]} : f \in CriteriaFields}

TwoCriteria ==
    UNION {{[c EXCEPT ![f] = v] : v \in CriteriaValues[f]} :
              f \in CriteriaFields, c \in OneCriterion}

CriteriaInputs == {NoCriteria} \cup OneCriterion \cup TwoCriteria

Limits == (0 .. MaxSearchRows) \cup {DefaultLimit}

InitSearch ==
    /\ players \in SearchTables
    /\ lastAdded = [id \in Ids |-> <<>>]
    /\ lastCall = <<>>
    /\ repeated = FALSE
    /\ overwrote = FALSE
    /\ addResult = FALSE
    /\ stats = <<>> /\ answer = <<>>
    /\ askedCriteria \in CriteriaInputs
    /\ askedLimit \in Limits
    /\ result = <<>>
    /\ NoLoad

SearchPlayers ==
    /\ result = <<>>
    /\ result' = <<searchPlayers(players, askedCriteria, askedLimit)>>
    /\ UNCHANGED <<storeVars, queryVars, askedCriteria, askedLimit, normVars, loadVars>>

NextSearch == SearchPlayers

SpecSearch == InitSearch /\ [][NextSearch]_vars

\* The records of the store, as searchPlayers hands records out.
storedRecords == {rowToPlayer(players[i]) : i \in 1 .. Len(players)}

returnedRecords == {result[1][k] : k \in 1 .. Len(result[1])}

\* needle occurs in hay as it stands: same characters, same case, adjacent.
containsText(hay, needle) ==
    \E i \in 0 .. (Len(hay) - Len(needle)) : SubSeq(hay, i + 1, i + Len(needle)) = needle

holdsText(field, wanted) == IsJsStr(field) /\ containsText(field[2], wanted[2])

\* A criterion is present when the caller passed a value for it.
given(v) == v # JsUndefined

satisfiesEvery(p, c) ==
    /\ given(c.position) => p.position = c.position
    /\ given(c.minOverall) => p.overallRating[2] >= c.minOverall[2]
    /\ given(c.maxAge) => p.age[2] <= c.maxAge[2]
    /\ given(c.maxPrice) => p.marketValue[2] <= c.maxPrice[2]
    /\ given(c.minPotential) => p.potential[2] >= c.minPotential[2]
    /\ given(c.nationality) => holdsText(p.nationality, c.nationality)
    /\ given(c.league) => holdsText(p.league, c.league)
    /\ given(c.club) => holdsText(p.club, c.club)

(***************************************************************************)
(* C4: when the limit is at least the number of matches, searchPlayers     *)
(* returns exactly the stored records that satisfy every criterion the     *)
(* caller passed: position equal, overallRating >= minOverall, age <=      *)
(* maxAge, marketValue <= maxPrice, potential >= minPotential, and         *)
(* nationality / league / club containing the given text.                  *)
(***************************************************************************)
C4_ExactConjunction ==
    result # <<>> =>
        LET matching == {p \in storedRecords : satisfiesEvery(p, askedCriteria)}
        IN askedLimit >= Cardinality(matching) => returnedRecords = matching

\* The rows the WHERE clause of the call selects.
matchingRows == {i \in 1 .. Len(players) : whereClause(players[i], askedCriteria)}

outranks(p, q) ==
    \/ p.overallRating[2] > q.overallRating[2]
    \/ p.overallRating[2] = q.overallRating[2] /\ p.marketValue[2] > q.marketValue[2]

(***************************************************************************)
(* C5: for a limit >= 0 the result is the top of the ranking of all        *)
(* matches: it holds min(limit, n) distinct matching records of the n      *)
(* matches, in order of overallRating descending then marketValue          *)
(* descending, and no match left out ranks above a returned one (the cap   *)
(* is applied after the sort).                                             *)
(***************************************************************************)
C5_TopOfRanking ==
    result # <<>> =>
        LET r == result[1]
            n == Cardinality(matchingRows)
            matches == {rowToPlayer(players[i]) : i \in matchingRows}
        IN /\ Len(r) = IF askedLimit < n THEN askedLimit ELSE n
           /\ \A k \in 1 .. Len(r) : r[k] \in matches
           /\ \A j, k \in 1 .. Len(r) : j # k => r[j].id # r[k].id
           /\ \A k \in 1 .. Len(r) - 1 : ~outranks(r[k + 1], r[k])
           /\ \A p \in matches \ returnedRecords : \A k \in 1 .. Len(r) : ~outranks(p, r[k])

\* The cap cut the list and the one record returned is not the first stored.
C5_Witness ==
    /\ result # <<>>
    /\ askedLimit = 1
    /\ Cardinality(matchingRows) = 2
    /\ Len(result[1]) = 1
    /\ result[1][1].id = column(players[2].id)

withoutNegatives(c) ==
    [f \in DOMAIN c |-> IF negative(c[f]) THEN JsUndefined ELSE c[f]]

(***************************************************************************)
(* C7 as stated: a numeric criterion out of range (a negative maxPrice or  *)
(* maxAge) is treated as no constraint: the call resolves to what it       *)
(* resolves to without that criterion.                                     *)
(***************************************************************************)
C7_OutOfRangeIsNoConstraint ==
    result # <<>> =>
        result[1] = searchPlayers(players, withoutNegatives(askedCriteria), askedLimit)

(***************************************************************************)
(* C7 amended: a negative numeric criterion raises no error and is applied *)
(* as the bound it is: every record returned has marketValue <= a negative *)
(* maxPrice and age <= a negative maxAge, so the result is empty when no   *)
(* stored value is negative; a negative minOverall or minPotential         *)
(* excludes no record with a rating of at least 0.                         *)
(***************************************************************************)
C7_OutOfRangeAppliedAsBound ==
    result # <<>> =>
        /\ negative(askedCriteria.maxPrice) =>
              /\ \A p \in returnedRecords : p.marketValue[2] <= askedCriteria.maxPrice[2]
              /\ (\A p \in storedRecords : p.marketValue[2] >= 0) => result[1] = <<>>
        /\ negative(askedCriteria.maxAge) =>
              /\ \A p \in returnedRecords : p.age[2] <= askedCriteria.maxAge[2]
              /\ (\A p \in storedRecords : p.age[2] >= 0) => result[1] = <<>>
        /\ (negative(askedCriteria.minOverall) /\ \A p \in storedRecords : p.overallRating[2] >= 0) =>
              result[1] = searchPlayers(players,
                              [askedCriteria EXCEPT !.minOverall = JsUndefined], askedLimit)
        /\ (negative(askedCriteria.minPotential) /\ \A p \in storedRecords : p.potential[2] >= 0) =>
              result[1] = searchPlayers(players,
                              [askedCriteria EXCEPT !.minPotential = JsUndefined], askedLimit)

\* A search with maxPrice = -1 alone on a store of two records came back empty.
C7_Witness ==
    /\ result # <<>>
    /\ askedCriteria = [NoCriteria EXCEPT !.maxPrice = JsNum(-1)]
    /\ askedLimit = DefaultLimit
    /\ Len(players) = 2
    /\ result[1] = <<>>

(***************************************************************************)
(* The text-matching specification: one searchPlayers call with a single   *)
(* nationality, league or club criterion on a store of one record whose    *)
(* field is any text (or NULL) over letters of both cases, '%' and '_'.    *)
(***************************************************************************)
MaxFieldLen == 2
MaxNeedleLen == 2

LikeAlphabet == {"a", "A", "b", "%", "_"}

TextsUpTo(n) == UNION {[1 .. k -> LikeAlphabet] : k \in 0 .. n}

TextFields == {"nationality", "league", "club"}

FieldValues == {JsUndefined} \cup {JsStr(t) : t \in TextsUpTo(MaxFieldLen)}

NeedleValues == {JsStr(t) : t \in TextsUpTo(MaxNeedleLen) \ {<<>>}}

InitLike ==
    /\ \E f \in TextFields, v \in FieldValues :
          players = foldAddPlayer(<<>>,
                        <<MakePlayer(1, T_ST, [RatedProfile(90) EXCEPT ![f] = v])>>)
    /\ lastAdded = [id \in Ids |-> <<>>]
    /\ lastCall = <<>>
    /\ repeated = FALSE
    /\ overwrote = FALSE
    /\ addResult = FALSE
    /\ stats = <<>> /\ answer = <<>>
    /\ \E f \in TextFields, t \in NeedleValues : askedCriteria = [NoCriteria EXCEPT ![f] = t]
    /\ askedLimit = DefaultLimit
    /\ result = <<>>
    /\ NoLoad

SpecLike == InitLike /\ [][NextSearch]_vars

\* Two characters that are the same up to the case of an ASCII letter.
sameUpToCase(a, b) ==
    \/ a = b
    \/ IsUpper(a) /\ CharCode(b) = CharCode(a) + 32
    \/ IsUpper(b) /\ CharCode(a) = CharCode(b) + 32

\* seg lies in hay right after position i: '_' stands for any one character.
segmentAt(hay, i, seg) ==
    /\ i + Len(seg) <= Len(hay)
    /\ \A k \in 1 .. Len(seg) : seg[k] = "_" \/ sameUpToCase(seg[k], hay[i + k])

\* The pieces of a text between its '%' characters.
RECURSIVE splitAtPercent(_)
splitAtPercent(text) ==
    IF \A k \in 1 .. Len(text) : text[k] # "%" THEN <<text>>
    ELSE LET k == CHOOSE j \in 1 .. Len(text) :
                      text[j] = "%" /\ \A h \in 1 .. j - 1 : text[h] # "%"
         IN <<SubSeq(text, 1, k - 1)>> \o splitAtPercent(SubSeq(text, k + 1, Len(text)))

\* The pieces lie in hay one after another, in order, without overlap.
RECURSIVE piecesInOrder(_, _)
piecesInOrder(hay, pieces) ==
    \/ pieces = <<>>
    \/ /\ pieces # <<>>
       /\ \E i \in 0 .. Len(hay) :
             /\ segmentAt(hay, i, Head(pieces))
             /\ piecesInOrder(SubSeq(hay, i + Len(Head(pieces)) + 1, Len(hay)), Tail(pieces))

likeContains(field, wanted) ==
    IsJsStr(field) /\ piecesInOrder(field[2], splitAtPercent(wanted[2]))

(***************************************************************************)
(* C6 as stated: the nationality, league and club criteria match exactly   *)
(* like a case-sensitive "contains": a record is returned if and only if   *)
(* the criterion text occurs in its field as a contiguous substring with   *)
(* the same letter case, '%' and '_' standing for themselves.              *)
(***************************************************************************)
C6_LiteralContains ==
    result # <<>> =>
        returnedRecords =
            {p \in storedRecords :
                \A f \in TextFields :
                    given(askedCriteria[f]) => holdsText(p[f], askedCriteria[f])}

(***************************************************************************)
(* C6 amended: a non-empty nationality, league or club criterion matches   *)
(* as the SQLite pattern %text% does: a record is returned if and only if  *)
(* its field is a text in which the pieces of the criterion between its    *)
(* '%' characters occur one after another, where letters compare without   *)
(* regard to ASCII case and a '_' of the criterion stands for any single   *)
(* character; a record whose field is NULL is never returned.              *)
(***************************************************************************)
C6_LikeContains ==
    result # <<>> =>
        returnedRecords =
            {p \in storedRecords :
                \A f \in TextFields :
                    given(askedCriteria[f]) => likeContains(p[f], askedCriteria[f])}

\* A record came back whose field holds the criterion text only in the
\* other letter case.
C6_Witness ==
    /\ result # <<>>
    /\ askedCriteria.league = JsStr(<<"a", "b">>)
    /\ players[1].league = SqlText(<<"A", "b">>)
    /\ Len(result[1]) = 1

(***************************************************************************)
(* CSVDataLoader: the integer normalizer.  String.prototype.trim and       *)
(* parseInt work on the characters of the text: leading white space, a     *)
(* sign, a 0x prefix for radix 16, then the longest run of digits.         *)
(***************************************************************************)
\* The white space of the texts the model draws: blank, tab, carriage
\* return, line feed.
WhiteSpace == {" ", "\t", "\r", "\n"}

RECURSIVE trimStart(_)
trimStart(chars) ==
    IF chars # <<>> /\ Head(chars) \in WhiteSpace THEN trimStart(Tail(chars)) ELSE chars

RECURSIVE trimEnd(_)
trimEnd(chars) ==
    IF chars # <<>> /\ chars[Len(chars)] \in WhiteSpace
    THEN trimEnd(SubSeq(chars, 1, Len(chars) - 1)) ELSE chars

trim(chars) == trimEnd(trimStart(chars))

\* The value of c as a digit of the radix, or -1.
radixDigit(c, radix) ==
    LET code == CharCode(c)
        v == IF IsDigit(c) THEN DigitValue(c)
             ELSE IF code >= 97 /\ code <= 102 THEN code - 87
             ELSE IF code >= 65 /\ code <= 70 THEN code - 55
             ELSE -1
    IN IF v < radix THEN v ELSE -1

RECURSIVE radixPrefixLen(_, _)
radixPrefixLen(chars, radix) ==
    IF chars # <<>> /\ radixDigit(Head(chars), radix) >= 0
    THEN 1 + radixPrefixLen(Tail(chars), radix) ELSE 0

RECURSIVE radixValue(_, _, _)
radixValue(chars, radix, acc) ==
    IF chars = <<>> THEN acc
    ELSE radixValue(Tail(chars), radix, radix * acc + radixDigit(Head(chars), radix))

parseInt(chars) ==
    LET s == trimStart(chars)
        signed == s # <<>> /\ Head(s) \in {"+", "-"}
        sign == IF s # <<>> /\ Head(s) = "-" THEN -1 ELSE 1
        unsigned == IF signed THEN Tail(s) ELSE s
        hex == Len(unsigned) >= 2 /\ unsigned[1] = "0" /\ unsigned[2] \in {"x", "X"}
        radix == IF hex THEN 16 ELSE 10
        digits == IF hex THEN SubSeq(unsigned, 3, Len(unsigned)) ELSE unsigned
        n == radixPrefixLen(digits, radix)
    IN IF n = 0 THEN JsNaN ELSE JsNum(sign * radixValue(SubSeq(digits, 1, n), radix, 0))

\* String(value)
String(value) ==
    CASE IsJsStr(value) -> value[2]
      [] IsJsNum(value) ->
            IF value[2] < 0 THEN <<"-">> \o NatChars(-value[2]) ELSE NatChars(value[2])
      [] OTHER -> <<"N", "a", "N">>

safeInt(value, defaultValue) ==
    IF ~truthy(value) \/ value = JsStr(<<>>) \/ value = JsStr(<<" ">>) THEN defaultValue
    ELSE LET parsed == parseInt(trim(String(value)))
         IN IF parsed = JsNaN THEN defaultValue ELSE parsed

mathMin(a, b) == IF a = JsNaN \/ b = JsNaN THEN JsNaN ELSE IF a[2] <= b[2] THEN a ELSE b

mathMax(a, b) == IF a = JsNaN \/ b = JsNaN THEN JsNaN ELSE IF a[2] >= b[2] THEN a ELSE b

\* The rating without the clamp.
unclampedRating(value) == safeInt(value, JsNum(75))

\* Math.min(99, Math.max(40, this.safeInt(row.overall_rating, 75)))
normalizeRating(value) == mathMin(JsNum(99), mathMax(JsNum(40), safeInt(value, JsNum(75))))

(***************************************************************************)
(* CSVDataLoader.calculateAge.  env is the machine's clock: env.today is   *)
(* the local calendar date <<y, m, d>> of new Date(), env.zone is "behind" *)
(* for a time zone west of UTC and "utc" for UTC or a zone east of it.     *)
(* getFullYear, getMonth and getDate read a Date in local time: in a zone  *)
(* behind UTC the beginning of a UTC day is still the day before.          *)
(***************************************************************************)
localDay(d, zone) == IF zone = "behind" THEN d[2] - 1 ELSE d[2]

getFullYear(d, zone) ==
    IF d = InvalidDate THEN JsNaN ELSE JsNum(civilFromDays(localDay(d, zone))[1])

getMonth(d, zone) ==
    IF d = InvalidDate THEN JsNaN ELSE JsNum(civilFromDays(localDay(d, zone))[2] - 1)

getDate(d, zone) ==
    IF d = InvalidDate THEN JsNaN ELSE JsNum(civilFromDays(localDay(d, zone))[3])

jsMinus(a, b) == IF a = JsNaN \/ b = JsNaN THEN JsNaN ELSE JsNum(a[2] - b[2])

jsLess(a, b) == a # JsNaN /\ b # JsNaN /\ a[2] < b[2]

jsEquals(a, b) == a # JsNaN /\ b # JsNaN /\ a[2] = b[2]

calculateAge(dobStr, env) ==
    IF ~truthy(dobStr) THEN JsNum(25)
    ELSE LET dob == newDate(dobStr)
             age == jsMinus(jsMinus(JsNum(env.today[1]), getFullYear(dob, env.zone)),
                        JsNum(IF \/ jsLess(JsNum(env.today[2] - 1), getMonth(dob, env.zone))
                                 \/ /\ jsEquals(JsNum(env.today[2] - 1), getMonth(dob, env.zone))
                                    /\ jsLess(JsNum(env.today[3]), getDate(dob, env.zone))
                              THEN 1 ELSE 0))
         IN mathMax(JsNum(16), mathMin(JsNum(45), age))

(***************************************************************************)
(* CSVDataLoader.parsePosition: the first entry of the comma-separated     *)
(* list, trimmed, looked up in the object literal positionMap.  A property *)
(* lookup on an object literal also finds the properties every object      *)
(* inherits from Object.prototype.                                         *)
(***************************************************************************)
\* a || b
jsOr(a, b) == IF truthy(a) THEN a ELSE b

\* String.prototype.split(',')[0]
RECURSIVE firstEntry(_)
firstEntry(chars) ==
    IF chars = <<>> \/ Head(chars) = "," THEN <<>>
    ELSE <<Head(chars)>> \o firstEntry(Tail(chars))

T_UnknownPlayer == <<"U", "n", "k", "n", "o", "w", "n", " ", "P", "l", "a", "y", "e", "r">>

ObjectPrototypeNames ==
    {<<"c", "o", "n", "s", "t", "r", "u", "c", "t", "o", "r">>,
     <<"t", "o", "S", "t", "r", "i", "n", "g">>,
     <<"v", "a", "l", "u", "e", "O", "f">>,
     <<"h", "a", "s", "O", "w", "n", "P", "r", "o", "p", "e", "r", "t", "y">>,
     <<"_", "_", "p", "r", "o", "t", "o", "_", "_">>}

positionMap(key) ==
    IF key \in Positions THEN JsStr(key)
    ELSE IF key \in ObjectPrototypeNames THEN <<"inherited", key>>
    ELSE JsUndefined

parsePosition(positionsStr) ==
    IF ~truthy(positionsStr) THEN JsStr(T_CM)
    ELSE LET primaryPos == trim(firstEntry(String(positionsStr)))
         IN jsOr(positionMap(primaryPos), JsStr(T_CM))

(***************************************************************************)
(* CSVDataLoader.parseCurrencyValue.  parseFloat reads the longest prefix  *)
(* that is a decimal literal (blanks, sign, digits, fraction, exponent) or *)
(* Infinity, and gives NaN when there is none.  A finite number is held as *)
(* <<"dec", m, e>>, the value m * 10^e; binary rounding of the product is  *)
(* not represented.  String.replace with a text pattern replaces the first *)
(* occurrence only.                                                        *)
(***************************************************************************)
RECURSIVE pow10(_)
pow10(k) == IF k = 0 THEN 1 ELSE 10 * pow10(k - 1)

startsWith(chars, prefix) ==
    Len(chars) >= Len(prefix) /\ SubSeq(chars, 1, Len(prefix)) = prefix

dropFirst(chars, k) == SubSeq(chars, k + 1, Len(chars))

T_Infinity == <<"I", "n", "f", "i", "n", "i", "t", "y">>

\* The exponent part at the head of chars, 0 when there is none.
exponentOf(chars) ==
    IF chars = <<>> \/ Head(chars) \notin {"e", "E"} THEN 0
    ELSE LET rest == Tail(chars)
             signed == rest # <<>> /\ Head(rest) \in {"+", "-"}
             digits == IF signed THEN Tail(rest) ELSE rest
             len == DigitsPrefixLen(digits)
         IN IF len = 0 THEN 0
            ELSE (IF signed /\ Head(rest) = "-" THEN -1 ELSE 1)
                    * DigitsValue(SubSeq(digits, 1, len), 0)

parseFloat(chars) ==
    LET s == trimStart(chars)
        signed == s # <<>> /\ Head(s) \in {"+", "-"}
        sign == IF s # <<>> /\ Head(s) = "-" THEN -1 ELSE 1
        unsigned == IF signed THEN Tail(s) ELSE s
        intLen == DigitsPrefixLen(unsigned)
        afterInt == dropFirst(unsigned, intLen)
        fracLen == IF afterInt # <<>> /\ Head(afterInt) = "."
                   THEN DigitsPrefixLen(Tail(afterInt)) ELSE 0
        point == IF afterInt # <<>> /\ Head(afterInt) = "." /\ intLen + fracLen > 0
                 THEN 1 ELSE 0
        afterFrac == dropFirst(afterInt, point + fracLen)
        mantissa == DigitsValue(SubSeq(unsigned, 1, intLen)
                                    \o SubSeq(afterInt, 2, 1 + fracLen), 0)
    IN IF startsWith(unsigned, T_Infinity) THEN <<"inf", sign>>
       ELSE IF intLen + fracLen = 0 THEN JsNaN
       ELSE <<"dec", sign * mantissa, exponentOf(afterFrac) - fracLen>>

\* Math.floor(v * 10^k)
floorTimes(v, k) ==
    CASE v[1] = "dec" ->
            IF v[3] + k >= 0 THEN JsNum(v[2] * pow10(v[3] + k))
            ELSE JsNum(v[2] \div pow10(-(v[3] + k)))
      [] OTHER -> v

\* String.prototype.replace(c, '')
RECURSIVE replaceFirst(_, _)
replaceFirst(chars, c) ==
    IF chars = <<>> THEN <<>>
    ELSE IF Head(chars) = c THEN Tail(chars)
    ELSE <<Head(chars)>> \o replaceFirst(Tail(chars), c)

\* String.prototype.replace with the global flag
RECURSIVE replaceAll(_, _)
replaceAll(chars, c) ==
    IF chars = <<>> THEN <<>>
    ELSE IF Head(chars) = c THEN replaceAll(Tail(chars), c)
    ELSE <<Head(chars)>> \o replaceAll(Tail(chars), c)

parseCurrencyValue(value) ==
    IF ~truthy(value) THEN JsNum(0)
    ELSE LET clean == trim(replaceFirst(replaceFirst(String(value), "€"), ","))
         IN IF clean = <<>> \/ clean = <<"-">> THEN JsNum(0)
            ELSE IF includes(clean, "M") THEN floorTimes(parseFloat(replaceFirst(clean, "M")), 6)
            ELSE IF includes(clean, "K") THEN floorTimes(parseFloat(replaceFirst(clean, "K")), 3)
            ELSE floorTimes(parseFloat(clean), 0)

(***************************************************************************)
(* CSVDataLoader.parseDate: no value for a falsy text, for the tokens      *)
(* "nan" and "NaN" and for a text the Date constructor rejects.            *)
(***************************************************************************)
T_nan == <<"n", "a", "n">>

T_NaN == <<"N", "a", "N">>

\* The normalizer with the beginning of 1970 in place of no value.
parseDateOrEpoch(dateStr) ==
    IF ~truthy(dateStr) \/ dateStr = JsStr(T_nan) \/ dateStr = JsStr(T_NaN) THEN JsDate(0)
    ELSE LET date == newDate(dateStr)
         IN IF date = InvalidDate THEN JsDate(0) ELSE date

parseDate(dateStr) ==
    IF ~truthy(dateStr) \/ dateStr = JsStr(T_nan) \/ dateStr = JsStr(T_NaN) THEN JsUndefined
    ELSE LET date == newDate(dateStr)
         IN IF date = InvalidDate THEN JsUndefined ELSE date

(***************************************************************************)
(* CSVDataLoader.parseCSVLine: one pass over the characters of the line.   *)
(* A double quote toggles inQuotes and is not kept; a comma outside quotes *)
(* ends the current field; every other character is appended to it.        *)
(***************************************************************************)
Quote == "\""

\* current.trim().replace(/"/g, '')
pushed(current) == replaceAll(trim(current), Quote)

\* The tokenizer that splits at every comma, in quotes or not.
RECURSIVE splitEveryComma(_)
splitEveryComma(line) ==
    LET first == firstEntry(line)
    IN IF Len(first) = Len(line) THEN <<pushed(replaceAll(line, Quote))>>
       ELSE <<pushed(replaceAll(first, Quote))>>
                \o splitEveryComma(dropFirst(line, Len(first) + 1))

\* One turn of the loop on the character char; parts is the list named
\* result in the code.
loopBody(state, char) ==
    IF char = Quote THEN [state EXCEPT !.inQuotes = ~state.inQuotes]
    ELSE IF char = "," /\ ~state.inQuotes
    THEN [state EXCEPT !.parts = Append(state.parts, pushed(state.current)),
                       !.current = <<>>]
    ELSE [state EXCEPT !.current = Append(state.current, char)]

\* The turns of the loop for the characters first .. last, in order: those
\* of the first half, then those of the second from the state the first
\* half ends in (the test makes the evaluation finish the first half before
\* it starts the second).
RECURSIVE scanLine(_, _, _, _)
scanLine(line, first, last, state) ==
    IF first > last THEN state
    ELSE IF first = last THEN loopBody(state, line[first])
    ELSE LET middle == (first + last) \div 2
             half == scanLine(line, first, middle, state)
         IN IF half.inQuotes \in BOOLEAN THEN scanLine(line, middle + 1, last, half)
            ELSE half

parseCSVLine(line) ==
    LET end == scanLine(line, 1, Len(line),
                        [parts |-> <<>>, current |-> <<>>, inQuotes |-> FALSE])
    IN Append(end.parts, pushed(end.current))

(***************************************************************************)
(* CSVDataLoader.parsePlayerFromRow.  A row object holds the texts of the  *)
(* columns of one data line.  random is the value of                       *)
(* Math.floor(Math.random() * 1000000), now the time of new Date(), env    *)
(* the local date and time zone of the machine.                            *)
(***************************************************************************)
parsePlayerFromRow(row, random, now, env) ==
    [id |-> safeInt(row.player_id, JsNum(random)),
     name |-> jsOr(row.name, JsStr(T_UnknownPlayer)),
     age |-> calculateAge(row.dob, env),
     nationality |-> jsOr(row.country_name, JsStr(T_Unknown)),
     club |-> jsOr(row.club_name, JsUndefined),
     league |-> jsOr(row.club_league_name, JsUndefined),
     position |-> parsePosition(row.positions),
     preferredFoot |-> jsOr(row.preferred_foot, JsStr(T_Right)),
     overallRating |-> normalizeRating(row.overall_rating),
     potential |-> normalizeRating(row.potential),
     marketValue |-> parseCurrencyValue(row.value),
     wage |-> parseCurrencyValue(row.wage),
     releaseClause |-> parseCurrencyValue(row.release_clause),
     attributes |-> ZeroAttributes,
     contractExpiry |-> parseDate(row.club_contract_valid_until),
     lastUpdated |-> JsDate(now)]

(***************************************************************************)
(* The normalizer specification: parsePlayerFromRow on a row whose         *)
(* overall_rating or potential column is absent or holds any text of up to *)
(* MaxRawLen characters.                                                   *)
(***************************************************************************)
MaxRawLen == 3
MaxRandom == 2

RawAlphabet == {"0", "1", "4", "5", "9", "-", " ", ".", "x", "a"}

RawTexts == UNION {[1 .. k -> RawAlphabet] : k \in 0 .. MaxRawLen}

\* row[header] = values[index] || '': a text, or undefined for a column the
\* header does not have.
RawValues == {JsUndefined} \cup {JsStr(t) : t \in RawTexts}

\* The outcomes of Math.floor(Math.random() * 1000000) the model draws.
RandomIds == 0 .. MaxRandom

\* The calendar text of a date, and the empty text of no date.
dateColumn(v) ==
    IF v[1] = "date"
    THEN LET c == civilFromDays(v[2]) IN JsStr(calendarText(c[1], c[2], c[3]))
    ELSE JsStr(<<>>)

\* A blank column is the empty text.
textOrBlank(v) == IF IsJsStr(v) THEN v ELSE JsStr(<<>>)

\* The row object of a player of the given position and profile, born on
\* 15 June 2000.
rowOf(position, pr) ==
    [player_id |-> JsStr(<<"1">>),
     name |-> pr.name,
     dob |-> JsStr(<<"2", "0", "0", "0", "-", "0", "6", "-", "1", "5">>),
     country_name |-> pr.nationality,
     club_name |-> textOrBlank(pr.club),
     club_league_name |-> textOrBlank(pr.league),
     positions |-> JsStr(position),
     preferred_foot |-> pr.preferredFoot,
     overall_rating |-> JsStr(<<"8", "0">>),
     potential |-> JsStr(<<"8", "5">>),
     value |-> JsStr(String(pr.marketValue)),
     wage |-> JsStr(<<"0">>),
     release_clause |-> JsStr(String(pr.releaseClause)),
     club_contract_valid_until |-> dateColumn(pr.contractExpiry)]

BaseRow == rowOf(T_ST, RatedProfile(90))

RatingColumns == {"overall_rating", "potential"}

InitNorm ==
    /\ players = <<>>
    /\ lastAdded = [id \in Ids |-> <<>>]
    /\ lastCall = <<>>
    /\ repeated = FALSE
    /\ overwrote = FALSE
    /\ addResult = FALSE
    /\ stats = <<>> /\ answer = <<>>
    /\ NoSearch
    /\ \E col \in RatingColumns, v \in RawValues : rawRow = [BaseRow EXCEPT ![col] = v]
    /\ normalized = <<>>
    /\ host = DefaultHost
    /\ NoLine
    /\ dataset = <<>> /\ NoFile /\ pending = <<>> /\ loadsDone = 0 /\ appState = "menu"

ParsePlayerFromRow ==
    /\ normalized = <<>>
    /\ \E random \in RandomIds :
          normalized' = <<parsePlayerFromRow(rawRow, random, loadsDone + 1, host)>>
    /\ UNCHANGED <<storeVars, queryVars, searchVars, rawRow, host, inputLine, fields,
                   loadVars>>

NextNorm == ParsePlayerFromRow

SpecNorm == InitNorm /\ [][NextNorm]_vars

\* The text is an integer written in decimal: an optional minus sign, then
\* digits only.
isIntegerText(chars) ==
    LET digits == IF chars # <<>> /\ Head(chars) = "-" THEN Tail(chars) ELSE chars
    IN digits # <<>> /\ \A k \in 1 .. Len(digits) : IsDigit(digits[k])

integerOf(chars) ==
    IF Head(chars) = "-" THEN -DigitsValue(Tail(chars), 0) ELSE DigitsValue(chars, 0)

\* Absent, empty, or a text without any digit.
hasNoNumber(raw) ==
    raw = JsUndefined \/ \A k \in 1 .. Len(raw[2]) : ~IsDigit(raw[2][k])

ratingOf(raw, rating) ==
    /\ IsJsNum(rating)
    /\ rating[2] \in 40 .. 99
    /\ hasNoNumber(raw) => rating[2] = 75
    /\ (IsJsStr(raw) /\ isIntegerText(raw[2])) =>
          LET n == integerOf(raw[2])
          IN rating[2] = IF n < 40 THEN 40 ELSE IF n > 99 THEN 99 ELSE n
    /\ raw = JsStr(<<"5">>) => rating[2] = 40
    /\ raw = JsStr(<<"1", "5", "0">>) => rating[2] = 99

MaxDataRows == 2
MaxLoads == 2

\* player_id texts: two integers, the empty text and a text without digits.
\* The columns parsePlayerFromRow reads, and their names as texts.
ColumnNames ==
    <<"player_id", "name", "dob", "country_name", "club_name",
      "club_league_name", "positions", "preferred_foot", "overall_rating", "potential",
      "value", "wage", "release_clause", "club_contract_valid_until">>

ColumnChars ==
    [player_id |->
        <<"p", "l", "a", "y", "e", "r", "_", "i", "d">>,
     name |->
        <<"n", "a", "m", "e">>,
     dob |->
        <<"d", "o", "b">>,
     country_name |->
        <<"c", "o", "u", "n", "t", "r", "y", "_", "n", "a", "m", "e">>,
     club_name |->
        <<"c", "l", "u", "b", "_", "n", "a", "m", "e">>,
     club_league_name |->
        <<"c", "l", "u", "b", "_", "l", "e", "a", "g", "u", "e", "_", "n", "a", "m", "e">>,
     positions |->
        <<"p", "o", "s", "i", "t", "i", "o", "n", "s">>,
     preferred_foot |->
        <<"p", "r", "e", "f", "e", "r", "r", "e", "d", "_", "f", "o", "o", "t">>,
     overall_rating |->
        <<"o", "v", "e", "r", "a", "l", "l", "_", "r", "a", "t", "i", "n", "g">>,
     potential |->
        <<"p", "o", "t", "e", "n", "t", "i", "a", "l">>,
     value |->
        <<"v", "a", "l", "u", "e">>,
     wage |->
        <<"w", "a", "g", "e">>,
     release_clause |->
        <<"r", "e", "l", "e", "a", "s", "e", "_", "c", "l", "a", "u", "s", "e">>,
     club_contract_valid_until |->
        <<"c", "l", "u", "b", "_", "c", "o", "n", "t", "r", "a", "c", "t", "_", "v", "a", "l", "i", "d", "_", "u", "n", "t", "i", "l">>]

IdTexts == {JsStr(<<"1">>), JsStr(<<"2">>), JsStr(<<>>), JsStr(<<"x">>)}

\* A row object of a file that has none of the columns.
EmptyRow == [c \in DOMAIN ColumnChars |-> JsUndefined]

\* The rows of a file with the columns player_id and name.
DataRows ==
    {[EmptyRow EXCEPT !.player_id = id, !.name = name] :
        id \in IdTexts, name \in {JsStr(<<"A", "b">>), JsStr(<<"C", "d">>)}}

Datasets == UNION {[1 .. n -> DataRows] : n \in 0 .. MaxDataRows}

\* Array.prototype.join
RECURSIVE join(_, _)
join(texts, separator) ==
    IF texts = <<>> THEN <<>>
    ELSE IF Len(texts) = 1 THEN texts[1]
    ELSE texts[1] \o separator \o join(Tail(texts), separator)

\* The columns of the file written from the rows: a column that a row
\* object lacks is a column the header does not have.
fileColumns(rows) ==
    SelectSeq(ColumnNames, LAMBDA c : \A i \in 1 .. Len(rows) : rows[i][c] # JsUndefined)

\* The text of the file written from the rows: the header line and one
\* line per row, each ended by a line feed.
fileOf(rows) ==
    LET columns == fileColumns(rows)
        header == join([k \in 1 .. Len(columns) |-> ColumnChars[columns[k]]], <<",">>)
        lineOf(row) == join([k \in 1 .. Len(columns) |-> row[columns[k]][2]], <<",">>)
    IN <<"text", join(<<header>> \o [i \in 1 .. Len(rows) |-> lineOf(rows[i])], <<"\n">>)
                    \o <<"\n">>>>

\* String.prototype.split('\n')
RECURSIVE split(_, _)
split(chars, separator) ==
    IF \A i \in 1 .. Len(chars) : chars[i] # separator THEN <<chars>>
    ELSE LET at == CHOOSE i \in 1 .. Len(chars) :
                        chars[i] = separator /\ \A j \in 1 .. i - 1 : chars[j] # separator
         IN <<SubSeq(chars, 1, at - 1)>> \o split(dropFirst(chars, at), separator)

\* headers.forEach((header, index) => row[header] = values[index] || ''),
\* read at the columns parsePlayerFromRow reads.
rowObject(headers, values) ==
    [c \in DOMAIN ColumnChars |->
        LET found == {index \in 1 .. Len(headers) : headers[index] = ColumnChars[c]}
        IN IF found = {} THEN JsUndefined
           ELSE LET index == CHOOSE i \in found : \A j \in found : i >= j
                IN IF index <= Len(values) THEN JsStr(values[index]) ELSE JsStr(<<>>)]

\* The lines of the file the loop does not skip as blank.
dataLines(file) ==
    IF file = Missing THEN {}
    ELSE LET lines == split(file[2], "\n")
         IN {i \in 2 .. Len(lines) : trim(lines[i]) # <<>>}

\* Math.floor(Math.random() * 1000000) is drawn for every row and used for
\* a row whose player_id safeInt cannot read: the lines of those rows.
randomLines(file) ==
    IF file = Missing THEN {}
    ELSE LET lines == split(file[2], "\n")
             headers == parseCSVLine(lines[1])
         IN {i \in dataLines(file) :
                safeInt(rowObject(headers, parseCSVLine(lines[i])).player_id, JsNaN) = JsNaN}

\* The draw of line i; a draw that is not used is left out of randoms.
randomAt(randoms, i) == IF i \in DOMAIN randoms THEN randoms[i] ELSE 0

\* The loop with no catch around a row: an exception in a row leaves the
\* loop and the load returns no players.
RECURSIVE abortingLoop(_, _, _, _, _, _, _, _)
abortingLoop(lines, headers, i, acc, thrownAt, randoms, now, env) ==
    IF i > Len(lines) THEN acc
    ELSE IF trim(lines[i]) = <<>>
    THEN abortingLoop(lines, headers, i + 1, acc, thrownAt, randoms, now, env)
    ELSE IF i \in thrownAt THEN <<>>
    ELSE abortingLoop(lines, headers, i + 1,
            Append(acc, parsePlayerFromRow(rowObject(headers, parseCSVLine(lines[i])),
                                           randomAt(randoms, i), now, env)),
            thrownAt, randoms, now, env)

\* The loop over the lines after the header.  thrownAt holds the lines in
\* whose try block an exception is raised: the row is skipped, by the catch
\* of the loop or by the null parsePlayerFromRow returns from its own.
RECURSIVE loadLoop(_, _, _, _, _, _, _, _)
loadLoop(lines, headers, i, acc, thrownAt, randoms, now, env) ==
    IF i > Len(lines) THEN acc
    ELSE IF trim(lines[i]) = <<>> \/ i \in thrownAt
    THEN loadLoop(lines, headers, i + 1, acc, thrownAt, randoms, now, env)
    ELSE loadLoop(lines, headers, i + 1,
            Append(acc, parsePlayerFromRow(rowObject(headers, parseCSVLine(lines[i])),
                                           randomAt(randoms, i), now, env)),
            thrownAt, randoms, now, env)

\* What the load returns and what it writes with console.error.
loadPlayersFromCSV(file, thrownAt, randoms, now, env) ==
    IF file = Missing
    THEN [players |-> <<>>, errors |-> <<"Error loading CSV:">>]
    ELSE LET lines == split(file[2], "\n")
         IN IF Len(lines) < 2 THEN [players |-> <<>>, errors |-> <<>>]
            ELSE [players |-> loadLoop(lines, parseCSVLine(lines[1]), 2, <<>>,
                                       thrownAt, randoms, now, env),
                  errors |-> <<>>]

InitLoad ==
    /\ players = <<>>
    /\ lastAdded = [id \in Ids |-> <<>>]
    /\ lastCall = <<>>
    /\ repeated = FALSE
    /\ overwrote = FALSE
    /\ addResult = FALSE
    /\ stats = <<>> /\ answer = <<>>
    /\ NoSearch
    /\ rawRow = <<>> /\ normalized = <<>> /\ host = DefaultHost
    /\ NoLine
    /\ dataset \in Datasets
    /\ csvFile = fileOf(dataset) /\ logged = <<>> /\ loaded = <<>>
    /\ pending = <<>>
    /\ loadsDone = 0
    /\ appState = "starting"

\* The number of exceptions raised in the rows of the loads so far.
raisedSoFar == IF loaded = <<>> THEN 0 ELSE loaded[1].raised

\* The number of loads begun so far.
begunSoFar == IF loaded = <<>> THEN 0 ELSE loaded[1].begun

\* A menu that takes its keys whatever the application shows.
shownInEveryState(state) == TRUE

\* if (state === 'menu') return <MainMenu onSelect={handleMenuSelect} />: the
\* menu and its useInput handler exist in the state 'menu' only; Loading,
\* which every other state of a load renders, takes no key.
menuShown(state) == state = "menu"

\* const csvPlayers = await loader.loadPlayersFromCSV()
Load ==
    \E thrownAt \in SUBSET dataLines(csvFile), randoms \in [randomLines(csvFile) -> RandomIds] :
        LET load == loadPlayersFromCSV(csvFile, thrownAt, randoms, loadsDone + 1, host)
        IN /\ pending' = load.players
           /\ logged' = logged \o load.errors
           /\ loaded' = <<[players |-> load.players, thrownAt |-> thrownAt,
                           raised |-> raisedSoFar + Cardinality(thrownAt),
                           begun |-> begunSoFar + 1]>>

\* initializeApp up to its first addPlayer: the import runs only on an
\* empty store.
InitializeApp ==
    /\ appState = "starting"
    /\ IF getStats(players).totalPlayers = 0
       THEN /\ Load
            /\ appState' = "loading"
            /\ stats' = stats
       ELSE /\ UNCHANGED <<pending, logged, loaded>>
            /\ appState' = "menu"
            /\ stats' = <<getStats(players)>>
    /\ UNCHANGED <<storeVars, answer, searchVars, normVars, dataset, csvFile, loadsDone>>

\* handleUpdate up to its first addPlayer.
HandleUpdate ==
    /\ menuShown(appState)
    /\ loadsDone < MaxLoads
    /\ Load
    /\ appState' = "loading"
    /\ UNCHANGED <<storeVars, queryVars, searchVars, normVars, dataset, csvFile, loadsDone>>

\* One turn of the loop: await db.addPlayer(player).
AddLoaded ==
    /\ appState = "loading"
    /\ pending # <<>>
    /\ LET r == addPlayer(players, Head(pending))
       IN players' = r.table /\ addResult' = r.ok
    /\ pending' = Tail(pending)
    /\ UNCHANGED <<lastAdded, lastCall, repeated, overwrote, queryVars, searchVars,
                   normVars, dataset, csvFile, logged, loaded, loadsDone, appState>>

\* After the loop: getStats, setStats, setState('menu').
LoadDone ==
    /\ appState = "loading"
    /\ pending = <<>>
    /\ stats' = <<getStats(players)>>
    /\ appState' = "menu"
    /\ loadsDone' = loadsDone + 1
    /\ UNCHANGED <<storeVars, answer, searchVars, normVars, dataset, csvFile, logged,
                   loaded, pending>>

NextLoad == InitializeApp \/ HandleUpdate \/ AddLoaded \/ LoadDone

SpecLoad == InitLoad /\ [][NextLoad]_vars

\* A row has an identifier when its player_id is an integer text.
hasIdentifier(row) == isIntegerText(row.player_id[2])

\* The distinct identifiers of the data file; a row without an identifier
\* counts as one more record of its own.
distinctIdentifiers ==
    Cardinality({integerOf(dataset[i].player_id[2]) :
                    i \in {j \in 1 .. Len(dataset) : hasIdentifier(dataset[j])}})
    + Cardinality({i \in 1 .. Len(dataset) : ~hasIdentifier(dataset[i])})

(***************************************************************************)
(* C3: after the same data file has been loaded twice into an initially    *)
(* empty store (loadPlayersFromCSV, then addPlayer for every record), the  *)
(* store holds as many records as the file has distinct identifiers, not   *)
(* twice as many, also when rows have an empty or non-integer player_id    *)
(* (in loads in which no row raised an exception).                         *)
(***************************************************************************)
C3_ReloadKeepsCount ==
    (loadsDone = 2 /\ appState = "menu" /\ raisedSoFar = 0)
        => Len(players) = distinctIdentifiers

(***************************************************************************)
(* The age specification: parsePlayerFromRow on a row whose dob column is  *)
(* absent, empty, a calendar date or a text that is no date, on a machine  *)
(* with any of a range of local dates, in a zone behind UTC or not.        *)
(***************************************************************************)
DobYears == {1975, 1980, 2000, 2008, 2009, 2015}

DobDays == {<<1, 1>>, <<2, 28>>, <<2, 29>>, <<3, 1>>, <<6, 15>>, <<12, 31>>}

TodayYears == {2024, 2025}

TodayDays == DobDays \cup {<<6, 14>>, <<6, 16>>}

CalendarDates(years, days) ==
    {<<y, md[1], md[2]>> : y \in years, md \in days}

realDates(dates) == {c \in dates : c[3] <= daysInMonth(c[1], c[2])}

\* Texts the Date constructor rejects.
NoDateTexts == {<<"x">>, <<"n", "a", "n">>, <<"a", "b", "c">>}

DobValues ==
    {JsUndefined, JsStr(<<>>)}
    \cup {JsStr(t) : t \in NoDateTexts}
    \cup {JsStr(calendarText(c[1], c[2], c[3])) : c \in realDates(CalendarDates(DobYears, DobDays))}

Zones == {"behind", "utc"}

Hosts ==
    {[today |-> c, zone |-> z] : c \in realDates(CalendarDates(TodayYears, TodayDays)), z \in Zones}

\* A store and a search not yet used, no file read.
Untouched ==
    /\ players = <<>>
    /\ lastAdded = [id \in Ids |-> <<>>]
    /\ lastCall = <<>>
    /\ repeated = FALSE
    /\ overwrote = FALSE
    /\ addResult = FALSE
    /\ stats = <<>> /\ answer = <<>>
    /\ NoSearch
    /\ dataset = <<>> /\ NoFile /\ pending = <<>> /\ loadsDone = 0 /\ appState = "menu"

InitAge ==
    /\ Untouched
    /\ NoLine
    /\ \E v \in DobValues : rawRow = [BaseRow EXCEPT !.dob = v]
    /\ normalized = <<>>
    /\ host \in Hosts

SpecAge == InitAge /\ [][NextNorm]_vars

(***************************************************************************)
(* C11: for every dob input (absent, empty, a date, or no date) and every  *)
(* current date the normalized age is an integer in [16, 45].              *)
(***************************************************************************)
C11_AgeInRange ==
    normalized # <<>> => (IsJsNum(normalized[1].age) /\ normalized[1].age[2] \in 16 .. 45)

(***************************************************************************)
(* C12: when the dob is absent, empty or a text the date parser cannot     *)
(* parse, the normalized age is 25.                                        *)
(***************************************************************************)
C12_DefaultAge ==
    (normalized # <<>>
        /\ rawRow.dob \in {JsUndefined, JsStr(<<>>)} \cup {JsStr(t) : t \in NoDateTexts})
    => normalized[1].age = JsNum(25)

\* The year, month and day written in a calendar text.
writtenDate(chars) ==
    <<DigitsValue(SubSeq(chars, 1, 4), 0), DigitsValue(SubSeq(chars, 6, 7), 0),
      DigitsValue(SubSeq(chars, 9, 10), 0)>>

\* Current year minus birth year, minus one when today's month/day comes
\* before the birth month/day.
yearsBetween(birth, today) ==
    today[1] - birth[1]
    - (IF today[2] < birth[2] \/ (today[2] = birth[2] /\ today[3] < birth[3]) THEN 1 ELSE 0)

clampAge(n) == IF n < 16 THEN 16 ELSE IF n > 45 THEN 45 ELSE n

(***************************************************************************)
(* C13: for a valid dob the age is the current year minus the birth year,  *)
(* minus one exactly when the current month/day precedes the birth         *)
(* month/day (then clamped to [16, 45]): N on and after the N-th birthday, *)
(* N-1 on every day of the year before it.                                 *)
(***************************************************************************)
C13_AgeByBirthday ==
    (normalized # <<>> /\ IsJsStr(rawRow.dob) /\ isCalendarText(rawRow.dob[2]))
    => normalized[1].age = JsNum(clampAge(yearsBetween(writtenDate(rawRow.dob[2]), host.today)))

(***************************************************************************)
(* The position normalizer on its own: positions texts assembled from a    *)
(* first entry, blanks around it and the rest of the list.                 *)
(***************************************************************************)
PositionTokens ==
    Positions \cup ObjectPrototypeNames \cup {<<>>, <<"s", "t">>, <<"X", "X">>}

Paddings == {<<<<>>, <<>>>>, <<<<" ">>, <<>>>>, <<<<>>, <<" ">>>>, <<<<" ">>, <<" ">>>>}

ListTails == {<<>>, <<",">>, <<",", " ", "C", "F">>}

PositionValues ==
    {JsUndefined} \cup
    {JsStr(pad[1] \o tok \o pad[2] \o rest) :
        tok \in PositionTokens, pad \in Paddings, rest \in ListTails}

InitPosition ==
    /\ Untouched
    /\ NoLine
    /\ \E v \in PositionValues : rawRow = [BaseRow EXCEPT !.positions = v]
    /\ normalized = <<>>
    /\ host = DefaultHost

SpecPosition == InitPosition /\ [][NextNorm]_vars

\* The first entry of the list as the claim reads it: up to the first
\* comma, without the blanks around it.
RECURSIVE untilComma(_)
untilComma(chars) ==
    IF chars = <<>> \/ Head(chars) = "," THEN <<>>
    ELSE <<Head(chars)>> \o untilComma(Tail(chars))

RECURSIVE dropBlanks(_)
dropBlanks(chars) ==
    IF chars # <<>> /\ Head(chars) = " " THEN dropBlanks(Tail(chars)) ELSE chars

RECURSIVE dropBlanksEnd(_)
dropBlanksEnd(chars) ==
    IF chars # <<>> /\ chars[Len(chars)] = " "
    THEN dropBlanksEnd(SubSeq(chars, 1, Len(chars) - 1)) ELSE chars

trimmedFirstEntry(v) ==
    IF IsJsStr(v) THEN dropBlanksEnd(dropBlanks(untilComma(v[2]))) ELSE <<>>

(***************************************************************************)
(* C14: for every raw positions text the normalized position is one of the *)
(* fifteen codes: the trimmed first entry of the list when that is a code, *)
(* and CM when it is absent, empty or not a code.                          *)
(***************************************************************************)
C14_PositionEnumerated ==
    normalized # <<>> =>
        LET entry == trimmedFirstEntry(rawRow.positions)
        IN normalized[1].position = JsStr(IF entry \in Positions THEN entry ELSE T_CM)

(***************************************************************************)
(* The currency normalizer on its own: one of the three currency columns   *)
(* holds a written amount (symbol, digit groups, fraction, suffix), any    *)
(* short text over the characters the normalizer looks at, or nothing.     *)
(***************************************************************************)
MaxAmountLen == 3

CurrencyColumns == {"value", "wage", "release_clause"}

DigitGroups ==
    {<<<<"2">>>>, <<<<"1", "6", "0">>>>, <<<<"5", "0", "0">>>>,
     <<<<"2", "5", "0", "0", "0", "0", "0", "0">>>>,
     <<<<"1">>, <<"2", "3", "4">>>>,
     <<<<"1">>, <<"2", "3", "4">>, <<"5", "6", "7">>>>}

Fractions == {<<>>, <<"0">>, <<"5">>, <<"7", "5">>}

Suffixes == {<<>>, <<"M">>, <<"K">>}

suffixPower(suffix) == IF suffix = <<"M">> THEN 6 ELSE IF suffix = <<"K">> THEN 3 ELSE 0

RECURSIVE joinGroups(_, _)
joinGroups(groups, separator) ==
    IF Len(groups) = 1 THEN groups[1]
    ELSE groups[1] \o separator \o joinGroups(Tail(groups), separator)

\* The amounts whose value fits the integers of the model.
WellFormedAmounts ==
    {a \in [symbol : {<<>>, <<"€">>}, groups : DigitGroups, fraction : Fractions,
             suffix : Suffixes] :
        /\ Len(joinGroups(a.groups, <<>>)) + suffixPower(a.suffix) <= 9
        /\ Len(joinGroups(a.groups, <<>>)) + Len(a.fraction) <= 9}

written(a) ==
    a.symbol \o joinGroups(a.groups, <<",">>)
        \o (IF a.fraction = <<>> THEN <<>> ELSE <<".">> \o a.fraction) \o a.suffix

CurrencyAlphabet == {"1", "-", ".", "M", "K", ",", " ", "x", "€"}

CurrencyTexts ==
    UNION {[1 .. k -> CurrencyAlphabet] : k \in 0 .. MaxAmountLen}
        \cup {written(a) : a \in WellFormedAmounts}
        \cup {<<"1", "e", "3">>, T_Infinity}

CurrencyValues == {JsUndefined} \cup {JsStr(t) : t \in CurrencyTexts}

InitCurrency ==
    /\ Untouched
    /\ NoLine
    /\ \E col \in CurrencyColumns, v \in CurrencyValues : rawRow = [BaseRow EXCEPT ![col] = v]
    /\ normalized = <<>>
    /\ host = DefaultHost

SpecCurrency == InitCurrency /\ [][NextNorm]_vars

\* The amount a written amount stands for: the number made of its digit
\* groups and fraction, times the multiplier of its suffix, truncated.
amountOf(a) ==
    LET digits == joinGroups(a.groups, <<>>) \o a.fraction
        shift == suffixPower(a.suffix) - Len(a.fraction)
        number == DigitsValue(digits, 0)
    IN IF shift >= 0 THEN number * pow10(shift) ELSE number \div pow10(-shift)

readsAs(text, amount) ==
    \A a \in WellFormedAmounts : text = JsStr(written(a)) => amount = JsNum(amountOf(a))

(***************************************************************************)
(* C15: a well-formed currency text, with or without the currency symbol,  *)
(* with any number of thousands separators, normalizes to its number times *)
(* 1,000,000 with the million suffix, times 1,000 with the thousand suffix *)
(* and times one otherwise, truncated to an integer.                       *)
(***************************************************************************)
C15_WellFormedAmount ==
    normalized # <<>> =>
        /\ readsAs(rawRow.value, normalized[1].marketValue)
        /\ readsAs(rawRow.wage, normalized[1].wage)
        /\ readsAs(rawRow.release_clause, normalized[1].releaseClause)

nonNegativeInteger(v) == IsJsNum(v) /\ v[2] >= 0

\* A text in which no digit follows the blanks, sign and point at its head.
RECURSIVE noLeadingNumber(_)
noLeadingNumber(chars) ==
    \/ chars = <<>>
    \/ Head(chars) \in {" ", "-", "+", ".", "€"} /\ noLeadingNumber(Tail(chars))
    \/ ~IsDigit(Head(chars)) /\ Head(chars) \notin {" ", "-", "+", ".", "€"}

zeroWhenUnreadable(raw, amount) ==
    (raw = JsUndefined \/ (IsJsStr(raw) /\ noLeadingNumber(raw[2]))) => amount = JsNum(0)

(***************************************************************************)
(* C16: for every raw text the three normalized currency amounts are       *)
(* non-negative integers, and an absent, empty, "-" or unreadable text     *)
(* (no leading number) gives 0.                                            *)
(***************************************************************************)
C16_AmountsNonNegative ==
    normalized # <<>> =>
        /\ nonNegativeInteger(normalized[1].marketValue)
        /\ nonNegativeInteger(normalized[1].wage)
        /\ nonNegativeInteger(normalized[1].releaseClause)
        /\ zeroWhenUnreadable(rawRow.value, normalized[1].marketValue)
        /\ zeroWhenUnreadable(rawRow.wage, normalized[1].wage)
        /\ zeroWhenUnreadable(rawRow.release_clause, normalized[1].releaseClause)

(***************************************************************************)
(* The contract date from the data file to the store and back: a file of   *)
(* one data row is loaded (initializeApp, handleUpdate), every record is   *)
(* stored with addPlayer, and searchPlayers without criteria reads the     *)
(* store back.                                                             *)
(***************************************************************************)
ExpiryTexts ==
    {<<>>, T_nan, T_NaN, <<"2", "0", "2", "7">>,
     <<"2", "0", "2", "6", "-", "0", "6", "-", "3", "0">>} \cup NoDateTexts

ExpiryValues == {JsUndefined} \cup {JsStr(t) : t \in ExpiryTexts}

\* The rows of a file with the columns player_id and name and, unless the
\* value is absent, club_contract_valid_until.
ExpiryRows ==
    {[EmptyRow EXCEPT !.player_id = JsStr(<<"1">>), !.name = name,
                      !.club_contract_valid_until = v] :
        name \in {JsStr(<<"A", "b">>), JsStr(<<"C", "d">>)}, v \in ExpiryValues}

InitExpiry ==
    /\ players = <<>>
    /\ lastAdded = [id \in Ids |-> <<>>]
    /\ lastCall = <<>>
    /\ repeated = FALSE
    /\ overwrote = FALSE
    /\ addResult = FALSE
    /\ stats = <<>> /\ answer = <<>>
    /\ askedCriteria = NoCriteria /\ askedLimit = DefaultLimit /\ result = <<>>
    /\ rawRow = <<>> /\ normalized = <<>> /\ host = DefaultHost
    /\ NoLine
    /\ \E row \in ExpiryRows : dataset = <<row>>
    /\ csvFile = fileOf(dataset) /\ logged = <<>> /\ loaded = <<>>
    /\ pending = <<>>
    /\ loadsDone = 0
    /\ appState = "starting"

NextExpiry == NextLoad \/ SearchPlayers

SpecExpiry == InitExpiry /\ [][NextExpiry]_vars

\* The contract column holds no date: it is absent, empty, one of the two
\* tokens, or a text that is no date.
noContractDate(row) ==
    row.club_contract_valid_until \in
        {JsUndefined, JsStr(<<>>), JsStr(T_nan), JsStr(T_NaN)}
            \cup {JsStr(t) : t \in NoDateTexts}

\* A record of the row has a real date or no value, and no value when the
\* row holds no date.
expiryNotGuessed(row, player) ==
    /\ player.contractExpiry = JsUndefined \/ player.contractExpiry[1] = "date"
    /\ noContractDate(row) => player.contractExpiry = JsUndefined

(***************************************************************************)
(* C17: a contract-valid-until input that is absent, empty, "nan", "NaN"   *)
(* or no date gives a normalized record without contractExpiry, never a    *)
(* guessed or invalid date, and the record read back from the store after  *)
(* addPlayer still has no contractExpiry.                                  *)
(***************************************************************************)
C17_AbsentExpiryStaysAbsent ==
    /\ \A i \in 1 .. Len(pending) : expiryNotGuessed(dataset[1], pending[i])
    /\ result # <<>> =>
            \A i \in 1 .. Len(result[1]) : expiryNotGuessed(dataset[1], result[1][i])

C17_Witness ==
    /\ noContractDate(dataset[1])
    /\ dataset[1].club_contract_valid_until = JsStr(<<"x">>)
    /\ loadsDone >= 1
    /\ result # <<>>
    /\ Len(result[1]) = 1
    /\ result[1][1].contractExpiry = JsUndefined

(***************************************************************************)
(* The tokenizer on its own: every line of up to MaxLineLen characters     *)
(* over a letter, the comma, the double quote and the blank, and lines     *)
(* with a tab or a carriage return at an end.                              *)
(***************************************************************************)
MaxLineLen == 5

LineAlphabet == {"a", ",", Quote, " "}

Lines ==
    UNION {[1 .. k -> LineAlphabet] : k \in 0 .. MaxLineLen}
        \cup {<<"a", ",", "a", "\r">>, <<"\t", "a", ",", Quote, "a", "\t", Quote>>}

InitLine ==
    /\ Untouched
    /\ rawRow = <<>> /\ normalized = <<>> /\ host = DefaultHost
    /\ inputLine \in Lines
    /\ fields = <<>>

ParseCSVLine ==
    /\ fields = <<>>
    /\ fields' = <<parseCSVLine(inputLine)>>
    /\ UNCHANGED <<storeVars, queryVars, searchVars, rawRow, normalized, host, inputLine,
                   loadVars>>

NextLine == ParseCSVLine

SpecLine == InitLine /\ [][NextLine]_vars

quotesBefore(text, i) == Cardinality({j \in 1 .. i - 1 : text[j] = Quote})

\* The positions of the commas outside quoted mode.
splitPoints(text) ==
    {i \in 1 .. Len(text) : text[i] = "," /\ quotesBefore(text, i) % 2 = 0}

\* The k-th of them; 0 before the first and one past the end after the last.
cut(text, k) ==
    IF k = 0 THEN 0
    ELSE IF k > Cardinality(splitPoints(text)) THEN Len(text) + 1
    ELSE CHOOSE i \in splitPoints(text) :
            Cardinality({j \in splitPoints(text) : j <= i}) = k

withoutQuotes(text) == SelectSeq(text, LAMBDA c : c # Quote)

\* The text between its first and last character that is not white space.
strip(text) ==
    LET inked == {i \in 1 .. Len(text) : text[i] \notin WhiteSpace}
    IN IF inked = {} THEN <<>>
       ELSE SubSeq(text, CHOOSE i \in inked : \A j \in inked : i <= j,
                         CHOOSE i \in inked : \A j \in inked : i >= j)

isSuffix(tail, text) ==
    Len(tail) <= Len(text) /\ SubSeq(text, Len(text) - Len(tail) + 1, Len(text)) = tail

quotePositions(text) == {i \in 1 .. Len(text) : text[i] = Quote}

\* The text after the last double quote.
afterLastQuote(text) ==
    LET q == CHOOSE i \in quotePositions(text) : \A j \in quotePositions(text) : i >= j
    IN SubSeq(text, q + 1, Len(text))

(***************************************************************************)
(* C18: parseCSVLine splits the line exactly at the commas outside quoted  *)
(* mode: there is one field more than such commas, each field is the text  *)
(* between two of them without its quotes and trimmed (so a comma in       *)
(* quotes stays in its field and no field holds a quote), and when the     *)
(* quotes are unbalanced everything after the last opening quote is in the *)
(* last field.                                                             *)
(***************************************************************************)
C18_SplitsOutsideQuotes ==
    fields # <<>> =>
        LET out == fields[1]
        IN /\ Len(out) = 1 + Cardinality(splitPoints(inputLine))
           /\ \A k \in 1 .. Len(out) :
                 /\ out[k] = strip(withoutQuotes(
                                SubSeq(inputLine, cut(inputLine, k - 1) + 1,
                                       cut(inputLine, k) - 1)))
                 /\ \A i \in 1 .. Len(out[k]) : out[k][i] # Quote
                 /\ out[k] = strip(out[k])
           /\ Cardinality(quotePositions(inputLine)) % 2 = 1 =>
                 LET tail == afterLastQuote(inputLine)
                 IN /\ \A i \in 1 .. Len(tail) : tail[i] # Quote
                    /\ \/ isSuffix(trimEnd(tail), out[Len(out)])
                       \/ out[Len(out)] = strip(tail)

C18_Witness ==
    /\ fields # <<>>
    /\ Cardinality(quotePositions(inputLine)) % 2 = 1
    /\ splitPoints(inputLine) # {}
    /\ \E i \in 1 .. Len(inputLine) : inputLine[i] = "," /\ i \notin splitPoints(inputLine)
    /\ \E i \in 1 .. Len(fields[1][Len(fields[1])]) : fields[1][Len(fields[1])][i] = ","

(***************************************************************************)
(* The load on its own: the file is missing, or holds the header           *)
(* player_id,name and up to MaxFileLines lines, each a data row or a line  *)
(* of white space, ended by line feeds (with or without one after the last *)
(* line) or by carriage return and line feed.  dataset is the list of the  *)
(* lines the file was written from.                                        *)
(***************************************************************************)
MaxFileLines == 3

BlankLine == <<"blank">>

FileRows ==
    {[EmptyRow EXCEPT !.player_id = JsStr(<<"1">>), !.name = JsStr(<<"A", "b">>)],
     [EmptyRow EXCEPT !.player_id = JsStr(<<"2">>), !.name = JsStr(<<"C", "d">>)],
     [EmptyRow EXCEPT !.player_id = JsStr(<<"x">>), !.name = JsStr(<<"E">>)]}

Layouts == UNION {[1 .. n -> FileRows \cup {BlankLine}] : n \in 0 .. MaxFileLines}

\* The line end of the file, and whether the last line has one.
FileStyles == {<<<<"\n">>, TRUE>>, <<<<"\n">>, FALSE>>, <<<<"\r", "\n">>, TRUE>>}

layoutFile(entries, lineEnd, ended) ==
    LET header == ColumnChars["player_id"] \o <<",">> \o ColumnChars["name"]
        lineOf(entry) == IF entry = BlankLine THEN <<" ">>
                         ELSE entry.player_id[2] \o <<",">> \o entry.name[2]
    IN <<"text", join(<<header>> \o [i \in 1 .. Len(entries) |-> lineOf(entries[i])], lineEnd)
                    \o (IF ended THEN lineEnd ELSE <<>>)>>

InitFile ==
    /\ players = <<>>
    /\ lastAdded = [id \in Ids |-> <<>>]
    /\ lastCall = <<>>
    /\ repeated = FALSE
    /\ overwrote = FALSE
    /\ addResult = FALSE
    /\ stats = <<>> /\ answer = <<>>
    /\ NoSearch
    /\ rawRow = <<>> /\ normalized = <<>> /\ host = DefaultHost
    /\ NoLine
    /\ dataset \in Layouts
    /\ \/ csvFile = Missing /\ dataset = <<>>
       \/ \E style \in FileStyles : csvFile = layoutFile(dataset, style[1], style[2])
    /\ logged = <<>> /\ loaded = <<>>
    /\ pending = <<>>
    /\ loadsDone = 0
    /\ appState = "starting"

\* The first load of the application and the addPlayer calls after it.
NextFile == InitializeApp \/ AddLoaded \/ LoadDone

SpecFile == InitFile /\ [][NextFile]_vars

\* The data rows of the file whose normalization raised no exception, in
\* the order of the file; entry k of the list is line k + 1 of the file.
rowsKept ==
    LET kept == {k \in 1 .. Len(dataset) :
                    dataset[k] # BlankLine /\ (k + 1) \notin loaded[1].thrownAt}
        nth(j) == CHOOSE k \in kept : Cardinality({m \in kept : m <= k}) = j
    IN [j \in 1 .. Cardinality(kept) |-> dataset[nth(j)]]

\* The player is the record of the row.
recordOf(row, player) ==
    /\ player.name = row.name
    /\ hasIdentifier(row) => player.id = JsNum(integerOf(row.player_id[2]))

(***************************************************************************)
(* C19: when the normalization of data rows raises an exception, the load  *)
(* returns the records of all other data rows that are not blank, in the   *)
(* order of the file, and nothing else: only the rows that raised are      *)
(* missing.                                                                *)
(***************************************************************************)
C19_OnlyFailedRowsDropped ==
    (loaded # <<>> /\ csvFile # Missing) =>
        /\ Len(loaded[1].players) = Len(rowsKept)
        /\ \A j \in 1 .. Len(rowsKept) : recordOf(rowsKept[j], loaded[1].players[j])

C19_Witness ==
    /\ loaded # <<>>
    /\ Len(dataset) = 3
    /\ \A k \in 1 .. 3 : dataset[k] # BlankLine
    /\ loaded[1].thrownAt = {3}
    /\ Len(loaded[1].players) = 2
    /\ loaded[1].players[1].name = dataset[1].name
    /\ loaded[1].players[2].name = dataset[3].name

\* The file has a structural defect: it is missing or has no data row.
structuralDefect ==
    csvFile = Missing \/ \A k \in 1 .. Len(dataset) : dataset[k] = BlankLine

(***************************************************************************)
(* C20: a load from a missing file or from a file with a header and no     *)
(* data row does not throw, returns no records, leaves the store unchanged *)
(* and reports the reason, so that it is told apart from a load that went  *)
(* well.                                                                   *)
(***************************************************************************)
C20_DefectReported ==
    (loaded # <<>> /\ structuralDefect) =>
        /\ loaded[1].players = <<>>
        /\ players = <<>>
        /\ logged # <<>>

\* The data rows of the file that carry an identifier, among those kept.
rowsWithIdentifier == {j \in 1 .. Len(rowsKept) : hasIdentifier(rowsKept[j])}

(***************************************************************************)
(* C21: a data row whose player_id is absent, empty or not an integer is   *)
(* discarded: the load returns records only for the rows that carry an     *)
(* identifier, and every stored record has the identifier and the name of  *)
(* such a row.                                                             *)
(***************************************************************************)
C21_RowWithoutIdDiscarded ==
    (loaded # <<>> /\ csvFile # Missing) =>
        /\ Len(loaded[1].players) = Cardinality(rowsWithIdentifier)
        /\ \A k \in 1 .. Len(players) :
              \E j \in rowsWithIdentifier :
                 /\ players[k].id = SqlInt(integerOf(rowsKept[j].player_id[2]))
                 /\ players[k].name = bind(rowsKept[j].name)

(***************************************************************************)
(* The queries on a store that addPlayer calls change in between: the      *)
(* store starts with the one record of an earlier run, players of five     *)
(* profiles are written under the ids 1 .. MaxId, and every query          *)
(* operation is asked.  answer holds the last operation only.              *)
(***************************************************************************)
T_China == <<"C", "h", "i", "n", "a">>
T_La == <<"L", "a">>
T_Lb == <<"L", "b">>

\* getPlayersByLeague(league, minRating: number = 80, limit: number = 50)
DefaultLeagueRating == 80

\* getPlayersByContinent(continent, minRating: number = 75, limit: number = 50)
DefaultContinentRating == 75

\* The full record of Spain in league La (rated 90, value 5); one of Japan
\* in league Lb (rated 75, value 5); one of "japan" with the empty league;
\* one of China rated 30; and the free agent of nationality Unknown
\* (rated 70) without club and league, whose wage is NaN.
QueryProfiles ==
    LET full == RatedProfile(90)
    IN {full,
        [full EXCEPT !.name = JsStr(<<"J", "a">>), !.nationality = JsStr(T_Japan),
                     !.league = JsStr(T_Lb), !.overallRating = JsNum(75)],
        [full EXCEPT !.name = JsStr(<<"j">>), !.nationality = JsStr(<<"j", "a", "p", "a", "n">>),
                     !.league = JsStr(<<>>), !.overallRating = JsNum(80)],
        [full EXCEPT !.name = JsStr(<<"C", "h">>), !.nationality = JsStr(T_China),
                     !.league = JsStr(T_Lb), !.overallRating = JsNum(30)],
        RatedProfile(70)}

QueryPlayers == {MakePlayer(id, T_ST, pr) : id \in Ids, pr \in QueryProfiles}

\* A record the store file holds from an earlier run: a player of Japan in
\* league Lb, rated 75, of value 1.
SeedPlayer ==
    MakePlayer(0, T_ST, [RatedProfile(90) EXCEPT !.name = JsStr(<<"S", "d">>),
                                                 !.nationality = JsStr(T_Japan),
                                                 !.league = JsStr(T_Lb),
                                                 !.overallRating = JsNum(75),
                                                 !.marketValue = JsNum(1)])

AskedContinents == {"Europe", "Asia", "Antarctica", "constructor"}

Query(name, continent, league, minRating, limit) ==
    [name |-> name, continent |-> continent, league |-> league,
     minRating |-> minRating, limit |-> limit]

Queries ==
    {Query(name, "", JsUndefined, 0, 0) :
        name \in {"searchPlayers", "getStats", "getLeagues", "getContinents"}}
    \cup {Query("getPlayersByLeague", "", JsStr(league), DefaultLeagueRating, DefaultLimit) :
            league \in {T_La, <<>>}}
    \cup {Query("getPlayersByContinent", continent, JsUndefined, ask[1], ask[2]) :
            continent \in AskedContinents,
            ask \in {<<40, DefaultLimit>>, <<DefaultContinentRating, 1>>}}

\* What the promise of the query settles to on the table.
runQuery(q, tbl) ==
    CASE q.name = "searchPlayers" ->
            [rejected |-> FALSE, value |-> searchPlayers(tbl, NoCriteria, DefaultLimit)]
      [] q.name = "getStats" -> [rejected |-> FALSE, value |-> getStats(tbl)]
      [] q.name = "getLeagues" -> [rejected |-> FALSE, value |-> getLeagues(tbl)]
      [] q.name = "getContinents" -> [rejected |-> FALSE, value |-> getContinents(tbl)]
      [] q.name = "getPlayersByLeague" ->
            [rejected |-> FALSE,
             value |-> getPlayersByLeague(tbl, q.league, JsNum(q.minRating), q.limit)]
      [] q.name = "getPlayersByContinent" ->
            getPlayersByContinent(tbl, q.continent, JsNum(q.minRating), q.limit)

InitQuery ==
    /\ players = addPlayer(<<>>, SeedPlayer).table
    /\ lastAdded = [id \in Ids |-> <<>>]
    /\ lastCall = <<>>
    /\ repeated = FALSE
    /\ overwrote = FALSE
    /\ addResult = FALSE
    /\ stats = <<>> /\ answer = <<>>
    /\ NoSearch
    /\ NoLoad

\* addPlayer between the queries.
Upsert(p) ==
    /\ LET r == addPlayer(players, p)
       IN /\ players' = r.table
          /\ addResult' = r.ok
          /\ lastAdded' = IF r.ok THEN [lastAdded EXCEPT ![p.id[2]] = <<p>>] ELSE lastAdded
          /\ answer' = <<[query |-> Query("addPlayer", "", JsUndefined, 0, 0),
                          asked |-> players, rejected |-> FALSE, value |-> <<>>]>>
    /\ UNCHANGED <<lastCall, repeated, overwrote, stats, searchVars, normVars, loadVars>>

\* One query operation, from its call to the settling of its promise.
Ask(q) ==
    /\ LET out == runQuery(q, players)
       IN /\ answer' = <<[query |-> q, asked |-> players, rejected |-> out.rejected,
                          value |-> out.value]>>
          /\ players' = dbAll(players, players).table
    /\ UNCHANGED <<historyVars, stats, searchVars, normVars, loadVars>>

NextQuery == (\E p \in QueryPlayers : Upsert(p)) \/ (\E q \in Queries : Ask(q))

SpecQuery == InitQuery /\ [][NextQuery]_vars

\* The continents (positions in ContinentNames) whose list has the text.
continentsOf(text) ==
    {c \in 1 .. Len(ContinentNames) : includes(getContinentCountries(ContinentNames[c]), text)}

\* The stored row, or the player read back, has a nationality of a list.
classifiedRow(row) == row.nationality # SqlNull /\ continentsOf(row.nationality[2]) # {}

\* The name is one of the six in continentMap.
knownContinent(continent) ==
    \E c \in 1 .. Len(ContinentNames) : ContinentNames[c] = continent

positionOf(continent) ==
    CHOOSE c \in 1 .. Len(ContinentNames) : ContinentNames[c] = continent

RECURSIVE sumOfCounts(_)
sumOfCounts(entries) ==
    IF entries = <<>> THEN 0 ELSE Head(entries).playerCount + sumOfCounts(Tail(entries))

asked(name) == answer # <<>> /\ answer[1].query.name = name /\ ~answer[1].rejected

(***************************************************************************)
(* C22: every nationality is in the list of at most one continent (no      *)
(* country is listed twice), membership is exact and case-sensitive:       *)
(* Japan is of Asia, japan and Unknown of no continent; a record of a      *)
(* nationality in no list is counted by getContinents in no continent and  *)
(* returned by getPlayersByContinent for none of the six.                  *)
(***************************************************************************)
C22_AtMostOneContinent ==
    /\ \A c \in 1 .. Len(ContinentNames) :
          LET list == getContinentCountries(ContinentNames[c])
          IN \A i \in 1 .. Len(list) :
                /\ continentsOf(list[i]) = {c}
                /\ \A j \in 1 .. Len(list) : list[j] = list[i] => j = i
    /\ \A i \in 1 .. Len(players) :
          players[i].nationality # SqlNull =>
              Cardinality(continentsOf(players[i].nationality[2])) <= 1
    /\ continentsOf(T_Japan) = {positionOf("Asia")}
    /\ continentsOf(<<"j", "a", "p", "a", "n">>) = {}
    /\ continentsOf(T_Unknown) = {}
    /\ asked("getContinents") =>
          sumOfCounts(answer[1].value) =
              Cardinality({i \in 1 .. Len(players) : classifiedRow(players[i])})
    /\ (asked("getPlayersByContinent") /\ knownContinent(answer[1].query.continent)) =>
          \A k \in 1 .. Len(answer[1].value) :
             /\ answer[1].value[k].nationality[1] = "str"
             /\ continentsOf(answer[1].value[k].nationality[2]) =
                    {positionOf(answer[1].query.continent)}

\* The store holds a record of Japan, one of japan and one of Unknown and
\* getContinents counts one player, of Asia.
C22_Witness ==
    /\ asked("getContinents")
    /\ Len(players) = 3
    /\ \E i \in 1 .. 3 : players[i].nationality = SqlText(<<"j", "a", "p", "a", "n">>)
    /\ \E i \in 1 .. 3 : players[i].nationality = SqlText(T_Unknown)
    /\ Len(answer[1].value) = 1
    /\ answer[1].value[1].continent = "Asia"
    /\ answer[1].value[1].playerCount = 1

\* The number of stored records whose nationality is in the continent's list.
recordsOf(c) ==
    Cardinality({i \in 1 .. Len(players) :
                    /\ players[i].nationality # SqlNull
                    /\ includes(getContinentCountries(ContinentNames[c]),
                                players[i].nationality[2])})

(***************************************************************************)
(* C23: getContinents returns one entry for every continent with at least  *)
(* one stored record of a listed nationality and none for the others, the  *)
(* count of an entry is the number of stored records of the continent's    *)
(* list, the counts sum to the number of records with a listed             *)
(* nationality, and no entry has a smaller count than the one after it.    *)
(***************************************************************************)
C23_ContinentCounts ==
    asked("getContinents") =>
        LET entries == answer[1].value
        IN /\ \A c \in 1 .. Len(ContinentNames) :
                 Cardinality({k \in 1 .. Len(entries) :
                                 entries[k].continent = ContinentNames[c]})
                     = (IF recordsOf(c) > 0 THEN 1 ELSE 0)
           /\ \A k \in 1 .. Len(entries) :
                 /\ knownContinent(entries[k].continent)
                 /\ entries[k].playerCount > 0
                 /\ entries[k].playerCount = recordsOf(positionOf(entries[k].continent))
           /\ sumOfCounts(entries) =
                 Cardinality({i \in 1 .. Len(players) : classifiedRow(players[i])})
           /\ \A k \in 1 .. (Len(entries) - 1) :
                 entries[k].playerCount >= entries[k + 1].playerCount

\* Two records of Japan and one of Spain: Asia with 2 comes before Europe
\* with 1.
C23_Witness ==
    /\ asked("getContinents")
    /\ Len(answer[1].value) = 2
    /\ answer[1].value[1] = [continent |-> "Asia", playerCount |-> 2]
    /\ answer[1].value[2] = [continent |-> "Europe", playerCount |-> 1]

\* The stored rows of a nationality of the continent's list rated at least
\* minRating.
continentMatches(continent, minRating) ==
    {i \in 1 .. Len(players) :
        /\ knownContinent(continent)
        /\ players[i].nationality # SqlNull
        /\ includes(getContinentCountries(continent), players[i].nationality[2])
        /\ players[i].overall_rating[2] >= minRating}

\* The count getContinents reports for the continent, 0 without an entry.
reportedCount(continent) ==
    LET entries == getContinents(players)
    IN IF \E k \in 1 .. Len(entries) : entries[k].continent = continent
       THEN (CHOOSE e \in {entries[k] : k \in 1 .. Len(entries)} :
                e.continent = continent).playerCount
       ELSE 0

\* What the normalizer guarantees of the ratings it writes.
ratingsFromLoader == \A i \in 1 .. Len(players) : players[i].overall_rating[2] >= 40

(***************************************************************************)
(* C24: getPlayersByContinent(continent, minRating, limit) resolves,       *)
(* without error, to the top min(limit, matches) stored records of a       *)
(* nationality of the continent's list with overallRating >= minRating,    *)
(* ordered by overallRating descending then marketValue descending; to the *)
(* empty list for every continent name outside the six; and with           *)
(* minRating <= 40 and a limit that does not cut, to as many records as    *)
(* getContinents counts for the continent.                                 *)
(***************************************************************************)
C24_TopOfContinent ==
    (answer # <<>> /\ answer[1].query.name = "getPlayersByContinent") =>
        LET q == answer[1].query
            r == answer[1].value
            rows == continentMatches(q.continent, q.minRating)
            n == Cardinality(rows)
            matches == {rowToPlayer(players[i]) : i \in rows}
        IN /\ ~answer[1].rejected
           /\ ~knownContinent(q.continent) => r = <<>>
           /\ Len(r) = IF q.limit < n THEN q.limit ELSE n
           /\ \A k \in 1 .. Len(r) : r[k] \in matches
           /\ \A j, k \in 1 .. Len(r) : j # k => r[j].id # r[k].id
           /\ \A k \in 1 .. Len(r) - 1 : ~outranks(r[k + 1], r[k])
           /\ \A p \in matches : (\A k \in 1 .. Len(r) : r[k] # p) =>
                 \A k \in 1 .. Len(r) : ~outranks(p, r[k])
           /\ (q.minRating <= 40 /\ q.limit >= n /\ ratingsFromLoader) =>
                 Len(r) = reportedCount(q.continent)

\* The same for every continent name that is not a name every object has.
C24_ExceptInheritedNames ==
    (answer # <<>> /\ answer[1].query.name = "getPlayersByContinent"
        /\ answer[1].query.continent \notin InheritedKeys) => C24_TopOfContinent

\* The league texts of the table's rows, NULL and the empty text left out.
leaguesOf(tbl) ==
    {tbl[i].league[2] :
        i \in {j \in 1 .. Len(tbl) : tbl[j].league # SqlNull /\ tbl[j].league # SqlText(<<>>)}}

(***************************************************************************)
(* C25: getLeagues returns every non-empty league of a stored record       *)
(* exactly once and nothing else: records without a league or with the     *)
(* empty league add nothing; after an addPlayer replaced the last record   *)
(* of a league, getLeagues does not return that league any more.           *)
(***************************************************************************)
C25_LeaguesPresent ==
    /\ asked("getLeagues") =>
          LET r == answer[1].value
          IN /\ {r[k] : k \in 1 .. Len(r)} = {JsStr(l) : l \in leaguesOf(players)}
             /\ Len(r) = Cardinality(leaguesOf(players))
    /\ asked("addPlayer") =>
          \A l \in leaguesOf(answer[1].asked) \ leaguesOf(players) :
             ~includes(getLeagues(players), JsStr(l))

\* The store held a record of league La and one of Lb; addPlayer replaced
\* the one of La by a record without a league, and getLeagues has Lb only.
C25_Witness ==
    /\ asked("addPlayer")
    /\ Len(players) = 2
    /\ Len(answer[1].asked) = 2
    /\ getLeagues(answer[1].asked) = <<JsStr(T_La), JsStr(T_Lb)>>
    /\ getLeagues(players) = <<JsStr(T_Lb)>>
    /\ \E i \in 1 .. 2 : players[i].league \in {SqlNull, SqlText(<<>>)}

QueryNames ==
    {"searchPlayers", "getStats", "getLeagues", "getPlayersByLeague",
     "getPlayersByContinent", "getContinents"}

idsOf(tbl) == {tbl[i].id : i \in 1 .. Len(tbl)}

(***************************************************************************)
(* C27: no operation (an addPlayer, as every load makes them one by one,   *)
(* or a query) removes an id from the store, and the record count getStats *)
(* reports never decreases.                                                *)
(***************************************************************************)
C27_NoIdLost ==
    [][/\ idsOf(players) \subseteq idsOf(players')
       /\ getStats(players').totalPlayers >= getStats(players).totalPlayers]_vars

\* addPlayer replaced the record of an id in a store of three, which still
\* has its three ids.
C27_Witness ==
    /\ asked("addPlayer")
    /\ Len(answer[1].asked) = 3
    /\ players # answer[1].asked
    /\ idsOf(players) = idsOf(answer[1].asked)
    /\ getStats(players).totalPlayers = 3

(***************************************************************************)
(* The application over files whose rows all carry an identifier: the      *)
(* initial import, the "update" action of the menu, the addPlayer calls of *)
(* the running load and its end.                                           *)
(***************************************************************************)
InitReload ==
    /\ InitLoad
    /\ \A k \in 1 .. Len(dataset) : hasIdentifier(dataset[k])

SpecReload == InitReload /\ [][NextLoad]_vars

\* pending is what is left of the list the load begun last returned.
pendingOfLastLoad ==
    pending # <<>> =>
        /\ loaded # <<>>
        /\ \E k \in 0 .. Len(loaded[1].players) :
              pending = SubSeq(loaded[1].players, k + 1, Len(loaded[1].players))

(***************************************************************************)
(* C28: loads never overlap: at most one load has begun and not ended, one *)
(* is running exactly while the application shows 'loading', where the     *)
(* menu takes no action, and the addPlayer calls still to come are those   *)
(* of that one load.                                                       *)
(***************************************************************************)
C28_LoadsNeverOverlap ==
    /\ begunSoFar - loadsDone \in {0, 1}
    /\ begunSoFar - loadsDone = 1 <=> appState = "loading"
    /\ appState = "loading" => ~menuShown(appState)
    /\ pendingOfLastLoad

\* The second load is running: one of its two addPlayer calls is done.
C28_Witness ==
    /\ appState = "loading"
    /\ loadsDone = 1
    /\ begunSoFar = 2
    /\ Len(loaded[1].players) = 2
    /\ Len(pending) = 1
    /\ Len(players) = 2

(***************************************************************************)
(* Writing and reading back: addPlayer calls with players of the three     *)
(* profiles, with the all-zero attributes of the normalizer or with six    *)
(* sub-ratings of their own, and searchPlayers without criteria.           *)
(***************************************************************************)
RatedAttributes ==
    [pace |-> 85, shooting |-> 50, passing |-> 7, dribbling |-> 0, defending |-> 40,
     physical |-> 99]

RoundTripPlayers ==
    {[MakePlayer(id, T_ST, pr) EXCEPT !.attributes = attributes] :
        id \in Ids, pr \in Profiles, attributes \in {ZeroAttributes, RatedAttributes}}

NextRoundTrip ==
    \/ \E p \in RoundTripPlayers : Upsert(p)
    \/ Ask(Query("searchPlayers", "", JsUndefined, 0, 0))

SpecRoundTrip == Init /\ [][NextRoundTrip]_vars

RoundTripFields ==
    {"id", "name", "age", "nationality", "club", "league", "position", "preferredFoot",
     "overallRating", "potential", "marketValue", "wage", "releaseClause"}

\* searchPlayers was asked on the table as it is now.
readBackNow == asked("searchPlayers") /\ answer[1].asked = players

\* The record searchPlayers returned for the id.
readBack(id) ==
    CHOOSE r \in {answer[1].value[k] : k \in 1 .. Len(answer[1].value)} : r.id = JsNum(id)

(***************************************************************************)
(* C29 as stated: a record written with addPlayer and read back by         *)
(* searchPlayers has the same id, name, age, nationality, club, league,    *)
(* position, preferredFoot, overallRating, potential, marketValue, wage,   *)
(* releaseClause and the same six attribute values.                        *)
(***************************************************************************)
C29_SameFieldsReadBack ==
    readBackNow =>
        \A id \in Ids : lastAdded[id] # <<>> =>
            /\ \E k \in 1 .. Len(answer[1].value) : answer[1].value[k].id = JsNum(id)
            /\ \A f \in RoundTripFields : readBack(id)[f] = lastAdded[id][1][f]
            /\ readBack(id).attributes = lastAdded[id][1].attributes

(***************************************************************************)
(* C29: a record written with addPlayer is read back by searchPlayers with *)
(* the same value in each of the thirteen fields that held a number or a   *)
(* text when written, with null in those that were undefined or NaN, and   *)
(* with the same six attribute values: all zeros are read back as all      *)
(* zeros, and the all-50 fallback of rowToPlayer is not produced.          *)
(***************************************************************************)
C29_ValuesReadBack ==
    readBackNow =>
        \A id \in Ids : lastAdded[id] # <<>> =>
            LET sent == lastAdded[id][1]
            IN /\ \E k \in 1 .. Len(answer[1].value) : answer[1].value[k].id = JsNum(id)
               /\ \A f \in RoundTripFields :
                     readBack(id)[f] = IF IsJsNum(sent[f]) \/ IsJsStr(sent[f])
                                       THEN sent[f] ELSE JsNull
               /\ readBack(id).attributes = sent.attributes
               /\ readBack(id).attributes # FallbackAttributes

\* Two records read back: one written with the all-zero attributes, the
\* other, a free agent whose wage is NaN, with sub-ratings of its own.
C29_Witness ==
    /\ readBackNow
    /\ \A id \in Ids : lastAdded[id] # <<>>
    /\ \E id \in Ids :
          /\ lastAdded[id][1].attributes = ZeroAttributes
          /\ readBack(id).attributes = ZeroAttributes
    /\ \E id \in Ids :
          /\ lastAdded[id][1].attributes = RatedAttributes
          /\ lastAdded[id][1].club = JsUndefined
          /\ lastAdded[id][1].wage = JsNaN
          /\ readBack(id).attributes = RatedAttributes
          /\ readBack(id).club = JsNull

\* The value is the number 0 or the empty text.
zeroOrEmpty(v) == (IsJsNum(v) /\ v[2] = 0) \/ (IsJsStr(v) /\ v[2] = <<>>)

\* The criteria with every 0 and every empty text left out.
withoutZeros(c) == [f \in DOMAIN c |-> IF zeroOrEmpty(c[f]) THEN JsUndefined ELSE c[f]]

(***************************************************************************)
(* C30: a numeric criterion of value 0 and a text criterion that is the    *)
(* empty text are treated as absent: searchPlayers resolves to what it     *)
(* resolves to without them, so maxPrice = 0 alone returns every stored    *)
(* record the limit allows, whatever its marketValue.                      *)
(***************************************************************************)
C30_ZeroIsAbsent ==
    result # <<>> =>
        /\ result[1] = searchPlayers(players, withoutZeros(askedCriteria), askedLimit)
        /\ (askedCriteria = [NoCriteria EXCEPT !.maxPrice = JsNum(0)]
               /\ askedLimit >= Len(players)) => Len(result[1]) = Len(players)

\* maxPrice = 0 and a record of a marketValue above 0 is returned.
C30_Witness ==
    /\ result # <<>>
    /\ askedCriteria.maxPrice = JsNum(0)
    /\ \E k \in 1 .. Len(result[1]) : result[1][k].marketValue[2] > 0
====
